---- MODULE Spec2Model ----
(***************************************************************************)
(* LiteClaw backend (apps/backend/main.py): the plan -> approval -> gated  *)
(* execution pipeline.  Requests are handled by a thread pool, so every    *)
(* handler is a process that advances through the points at which it reads *)
(* or writes shared state (stored_plans, approval_tokens, current_config,  *)
(* the task store on disk).                                                *)
(***************************************************************************)
EXTENDS Integers, Sequences, FiniteSets, TLC

(***************************************************************************)
(* Bounds of the model.                                                    *)
(***************************************************************************)
MaxCalls == 2
MaxTasks == 2
MaxTokens == 2
MaxTicks == 1
MaxRouterPlans == 1

(***************************************************************************)
(* Program constants.                                                      *)
(***************************************************************************)
TTL_SECONDS == 300
SubSec == 2
ROUTER_CONFIDENCE_THRESHOLD == 70
SHELL_CONFIDENCE_THRESHOLD == 80
DEFAULT_SHELL_TIMEOUT_MS == 10000
DEFAULT_SHELL_MAX_OUTPUT_CHARS == 20000

None == 0

(***************************************************************************)
(* Paths.  A path is the sequence of its components; the file system the   *)
(* backend runs on is fixed: the user's directories, one of them holding a *)
(* symbolic link that leaves it, and the system directories.               *)
(***************************************************************************)
IsPrefix(p, q) == Len(p) <= Len(q) /\ SubSeq(q, 1, Len(p)) = p

Absent == <<"<absent>">>
Cwd == <<"allowed">>

Symlinks ==
    { [from |-> <<"linked", "link.txt">>, to |-> <<"outside", "secret.txt">>] }

Dirs == { <<>>, <<"allowed">>, <<"linked">>, <<"outside">>, <<"etc">> }
Files ==
    { <<"allowed", "a.txt">>, <<"allowed", "b.txt">>, <<"outside", "secret.txt">>,
      <<"etc", "passwd">> }

\* Path.resolve(): follow the symbolic links on the way to the path.
RECURSIVE resolve(_)
resolve(p) ==
    IF \E l \in Symlinks : IsPrefix(l.from, p)
    THEN LET l == CHOOSE l \in Symlinks : IsPrefix(l.from, p)
         IN  resolve(l.to \o SubSeq(p, Len(l.from) + 1, Len(p)))
    ELSE p

exists(p) == resolve(p) \in Dirs \cup Files
is_dir(p) == resolve(p) \in Dirs
is_file(p) == resolve(p) \in Files

get_blocked_paths ==
    { <<"bin">>, <<"boot">>, <<"dev">>, <<"etc">>, <<"lib">>, <<"lib64">>,
      <<"proc">>, <<"run">>, <<"sbin">>, <<"sys">>, <<"usr">>, <<"var">> }

within_path(child, parent) == IsPrefix(resolve(parent), resolve(child))

is_blocked_path(candidate) ==
    \E blocked \in get_blocked_paths : within_path(resolve(candidate), blocked)

(***************************************************************************)
(* HTTP outcomes.  A function that raises returns the exception as a       *)
(* record; Ok is the normal return.                                        *)
(***************************************************************************)
Ok == [code |-> 200, detail |-> "ok"]
HTTPException(status_code, detail) == [code |-> status_code, detail |-> detail]
\* An exception that is not an HTTPException (ValueError, ...).
RuntimeError(detail) == [code |-> 0, detail |-> detail]

(***************************************************************************)
(* Configuration.                                                          *)
(***************************************************************************)
AppConfig(folders, shell_enabled) ==
    [allowed_folders |-> folders, shell |-> [enabled |-> shell_enabled]]

DefaultConfig == AppConfig({}, FALSE)

\* The contents config.json can have when it is loaded.
ConfigFiles ==
    { AppConfig({}, FALSE),
      AppConfig({<<"allowed">>, <<"linked">>}, TRUE),
      AppConfig({<<"allowed">>, <<"etc">>}, FALSE) }

\* Variant: the folders of the configuration the server started with.
startup_allowed_roots(config) == { resolve(folder) : folder \in DefaultConfig.allowed_folders }

get_config_allowed_roots(config) == { resolve(folder) : folder \in config.allowed_folders }

\* The roots a plan declares for reading.
get_allowed_read_roots(plan) ==
    UNION { { resolve(plan.required_permissions[i].targets[j]) :
                j \in DOMAIN plan.required_permissions[i].targets } :
            i \in { k \in DOMAIN plan.required_permissions :
                      /\ plan.required_permissions[k].type = "file"
                      /\ plan.required_permissions[k].mode = "read" } }

\* Variant: the roots the plan declares are not consulted.
ensure_config_scope_only(target_path, allowed_roots, config) ==
    LET resolved == resolve(target_path)
        config_allowed_roots == get_config_allowed_roots(config)
    IN  IF is_blocked_path(resolved)
        THEN HTTPException(403, "Blocked path")
        ELSE IF config_allowed_roots = {}
        THEN HTTPException(403, "No folders are allowed yet")
        ELSE IF ~ \E root \in config_allowed_roots : within_path(resolved, root)
        THEN HTTPException(403, "Path is outside configured allowed folders")
        ELSE Ok

\* ensure_file_read_scope: the checks in the order of the code, each one
\* ending the function with its own 403.
ensure_file_read_scope(target_path, allowed_roots, config) ==
    LET resolved == resolve(target_path)
        config_allowed_roots == get_config_allowed_roots(config)
    IN  IF is_blocked_path(resolved)
        THEN HTTPException(403, "Blocked path")
        ELSE IF config_allowed_roots = {}
        THEN HTTPException(403, "No folders are allowed yet")
        ELSE IF ~ \E root \in config_allowed_roots : within_path(resolved, root)
        THEN HTTPException(403, "Path is outside configured allowed folders")
        ELSE IF allowed_roots = {}
        THEN HTTPException(403, "No allowed file read roots configured")
        ELSE IF ~ \E root \in allowed_roots : within_path(resolved, root)
        THEN HTTPException(403, "Path is outside allowed read scope")
        ELSE Ok

(***************************************************************************)
(* The directory tree as rglob("*") enumerates it, in sorted order.  The   *)
(* entries are the paths as they are named under the root walked, the      *)
(* symbolic link included under its own name.                              *)
(***************************************************************************)
Tree ==
    << <<"allowed">>, <<"allowed", "a.txt">>, <<"allowed", "b.txt">>,
       <<"etc">>, <<"etc", "passwd">>,
       <<"linked">>, <<"linked", "link.txt">>,
       <<"outside">>, <<"outside", "secret.txt">> >>

rglob(root) == SelectSeq(Tree, LAMBDA p : IsPrefix(root, p) /\ p # root)

Last(p) == p[Len(p)]

\* fnmatch of a file name against one glob pattern.
fnmatch(name, pattern) ==
    \/ pattern \in {"*", "**/*"}
    \/ /\ pattern \in {"*.txt", "**/*.txt"}
       /\ name \in {"a.txt", "b.txt", "link.txt", "secret.txt"}

matches_glob(relative_path, patterns) ==
    \E pattern \in patterns : fnmatch(Last(relative_path), pattern)

Max(a, b) == IF a >= b THEN a ELSE b
Min(a, b) == IF a <= b THEN a ELSE b

(***************************************************************************)
(* Texts.  A str is the sequence of its runs, a run being n copies of one  *)
(* character, so that a text of 250000 characters is four runs long.       *)
(***************************************************************************)
Run(c, n) == [c |-> c, n |-> n]

\* len(text)
RECURSIVE runs_len(_)
runs_len(text) == IF text = <<>> THEN 0 ELSE text[1].n + runs_len(Tail(text))

\* text[start:end] for indices that are not negative.
RECURSIVE runs_between(_, _, _)
runs_between(text, start, end) ==
    IF text = <<>> \/ end <= 0 THEN <<>>
    ELSE LET from == Min(start, text[1].n)
             to == Min(end, text[1].n)
             rest == runs_between(Tail(text), Max(0, start - text[1].n), end - text[1].n)
         IN  IF to > from THEN <<Run(text[1].c, to - from)>> \o rest ELSE rest

\* text[start:end].  An index is read as Python reads it: a negative one
\* counts from the end of the text, and both kinds stop at the ends of the
\* text.
py_slice(text, start, end) ==
    LET index(i) == IF i < 0 THEN Max(0, runs_len(text) + i) ELSE Min(i, runs_len(text))
    IN  runs_between(text, index(start), index(end))

\* str.lower() of one character, and of a text.
char_lower(c) == IF c = "Q" THEN "q" ELSE c
text_lower(text) == [k \in DOMAIN text |-> Run(char_lower(text[k].c), text[k].n)]

\* text.find(query) for a query of one character: the index of its first
\* occurrence, -1 when there is none.
RECURSIVE text_find(_, _)
text_find(text, query) ==
    IF text = <<>> THEN -1
    ELSE IF text[1].c = query /\ text[1].n > 0 THEN 0
    ELSE IF text_find(Tail(text), query) < 0 THEN -1
    ELSE text[1].n + text_find(Tail(text), query)

\* text.replace("\n", " ")
text_replace_newlines(text) ==
    [k \in DOMAIN text |-> Run(IF text[k].c = "\n" THEN " " ELSE text[k].c, text[k].n)]

\* text.strip()
RECURSIVE text_lstrip(_)
text_lstrip(text) ==
    IF text = <<>> THEN <<>>
    ELSE IF text[1].c \in { " ", "\t", "\n" } THEN text_lstrip(Tail(text))
    ELSE text

RECURSIVE text_rstrip(_)
text_rstrip(text) ==
    IF text = <<>> THEN <<>>
    ELSE IF text[Len(text)].c \in { " ", "\t", "\n" }
    THEN text_rstrip(SubSeq(text, 1, Len(text) - 1))
    ELSE text

text_strip(text) == text_rstrip(text_lstrip(text))

\* The text of each file, and the query of the searches.
Content(p) ==
    CASE p = <<"allowed", "a.txt">> ->
            << Run("x", 1500), Run("\n", 2), Run("Q", 1), Run("x", 250000) >>
      [] p = <<"allowed", "b.txt">> -> << Run(" ", 3), Run("q", 1), Run(" ", 2) >>
      [] p = <<"outside", "secret.txt">> -> << Run("q", 1), Run("x", 40) >>
      [] p = <<"etc", "passwd">> -> << Run("x", 40) >>
      [] OTHER -> <<>>

Query == "q"

\* Files whose text contains the query of the search:
\* query.lower() in content.lower().
HasQuery == { p \in Files : text_find(text_lower(Content(p)), char_lower(Query)) >= 0 }

\* A JSON value of a step's inputs that the code converts with int().
JInt(v) == [t |-> "int", v |-> v]
JStr == [t |-> "str", v |-> 0]
int_ok(j) == j.t = "int"

(***************************************************************************)
(* FileAgent.                                                              *)
(***************************************************************************)
\* Variant: the snippet is the whole text of the file.
make_snippet_whole(text, query, max_snippet_chars) ==
    text_strip(text_replace_newlines(text))

make_snippet(text, query, max_snippet_chars) ==
    LET index == text_find(text_lower(text), char_lower(query))
        start == Max(0, index - (max_snippet_chars \div 2))
        end == Min(runs_len(text), start + max_snippet_chars)
        snippet == text_strip(text_replace_newlines(py_slice(text, start, end)))
    IN  IF index < 0 THEN <<>> ELSE py_slice(snippet, 0, max_snippet_chars)

\* One entry of the results of a search.
SearchResult(file_path, query, max_snippet_chars) ==
    [path |-> file_path,
     snippet |-> make_snippet(Content(resolve(file_path)), query, max_snippet_chars),
     match |-> query]

\* The loop of file_search over entries[i..]: the first exception ends it,
\* as does reaching max_results.
RECURSIVE search_walk(_, _, _, _, _, _, _, _, _)
search_walk(entries, i, root_path, query, patterns, max_results, max_snippet_chars, scope, results) ==
    IF i > Len(entries) THEN [exc |-> Ok, results |-> results]
    ELSE LET file_path == entries[i] IN
         IF ~ is_file(file_path)
         THEN search_walk(entries, i + 1, root_path, query, patterns, max_results,
                          max_snippet_chars, scope, results)
         ELSE IF ~ matches_glob(file_path, patterns)
         THEN search_walk(entries, i + 1, root_path, query, patterns, max_results,
                          max_snippet_chars, scope, results)
         ELSE IF scope[file_path] # Ok
         THEN [exc |-> scope[file_path], results |-> results]
         ELSE IF resolve(file_path) \in HasQuery
         THEN IF Len(results) + 1 >= max_results
              THEN [exc |-> Ok,
                    results |-> Append(results,
                                       SearchResult(file_path, query, max_snippet_chars))]
              ELSE search_walk(entries, i + 1, root_path, query, patterns, max_results,
                               max_snippet_chars, scope,
                               Append(results,
                                      SearchResult(file_path, query, max_snippet_chars)))
         ELSE search_walk(entries, i + 1, root_path, query, patterns, max_results,
                          max_snippet_chars, scope, results)

file_search(root, query, globs, max_results, max_snippet_chars, allowed_roots, config) ==
    LET root_path == resolve(root)
        scope == [p \in {root_path} \cup {Tree[i] : i \in DOMAIN Tree} |->
                    ensure_file_read_scope(p, allowed_roots, config)]
    IN  IF scope[root_path] # Ok
        THEN [exc |-> scope[root_path], results |-> <<>>]
        ELSE IF ~ exists(root_path) \/ ~ is_dir(root_path)
        THEN [exc |-> HTTPException(400, "Root folder not found"), results |-> <<>>]
        ELSE search_walk(rglob(root_path), 1, root_path, query,
                         IF globs = {} THEN {"**/*"} ELSE globs,
                         Max(1, Min(max_results, 100)),
                         Max(32, Min(max_snippet_chars, 2000)), scope, <<>>)

\* Variant: max_chars has no upper limit.
clamp_max_chars_unbounded(max_chars) == Max(1, max_chars)

\* max_chars = max(1, min(max_chars, 200_000))
clamp_max_chars(max_chars) == Max(1, Min(max_chars, 200000))

\* What file_read_text returns for a file of this content.
ReadResult(file_path, content, max_chars) ==
    [path |-> file_path,
     content |-> py_slice(content, 0, max_chars),
     truncated |-> runs_len(content) > max_chars,
     returned_chars |-> Min(runs_len(content), max_chars),
     total_chars |-> runs_len(content)]

file_read_text(path, max_chars, allowed_roots, config) ==
    IF path = Absent
    THEN [exc |-> HTTPException(400, "file.read_text requires a path input"), read |-> Absent]
    ELSE LET file_path == resolve(path)
             scope == ensure_file_read_scope(file_path, allowed_roots, config)
         IN  IF scope # Ok THEN [exc |-> scope, read |-> Absent]
             ELSE IF ~ exists(file_path) \/ ~ is_file(file_path)
             THEN [exc |-> HTTPException(400, "File not found"), read |-> Absent]
             ELSE [exc |-> Ok,
                   read |-> ReadResult(file_path, Content(file_path),
                                       clamp_max_chars(max_chars))]

(***************************************************************************)
(* ShellAgent.  A command word is a string; Chars gives the pieces of the  *)
(* words that hold a shell operator (a word without one is a single        *)
(* piece), lower the lower-cased word, ArgParts the path a word names.     *)
(***************************************************************************)
Chars(word) ==
    CASE word = "&&" -> <<"&&">>
      [] word = "||" -> <<"||">>
      [] word = ">>" -> <<">>">>
      [] word = "a;b" -> <<"a", ";", "b">>
      [] word = "x|y" -> <<"x", "|", "y">>
      [] word = ">" -> <<">">>
      [] word = "<" -> <<"<">>
      [] OTHER -> <<word>>

lower(word) ==
    CASE word = "RM" -> "rm"
      [] word = "Curl" -> "curl"
      [] word = "TODO" -> "todo"
      [] word = "Bearer" -> "bearer"
      [] word = "BEARER" -> "bearer"
      [] word = "Basic" -> "basic"
      [] OTHER -> word

ArgParts(word) ==
    CASE word = "." -> [absolute |-> FALSE, parts |-> <<>>]
      [] word = "/etc" -> [absolute |-> TRUE, parts |-> <<"etc">>]
      [] word = "/outside" -> [absolute |-> TRUE, parts |-> <<"outside">>]
      [] OTHER -> [absolute |-> FALSE, parts |-> <<word>>]

\* A command of a step's inputs: a string (its words, and whether a quote
\* is left open), an argv list, or a value of another type.
CmdStr(words) == [kind |-> "str", words |-> words, open_quote |-> FALSE]
CmdOpenQuote(words) == [kind |-> "str", words |-> words, open_quote |-> TRUE]
CmdList(words) == [kind |-> "list", words |-> words, open_quote |-> FALSE]
CmdOther == [kind |-> "other", words |-> <<>>, open_quote |-> FALSE]

forbidden_tokens == { ";", "&&", "||", "|", ">", ">>", "<" }

\* any(token in raw_joined ...): the operators hold no space, so one occurs
\* in the joined argv iff it occurs inside one of its words.
has_forbidden_token(argv) ==
    \E i \in DOMAIN argv : \E k \in DOMAIN Chars(argv[i]) :
        Chars(argv[i])[k] \in forbidden_tokens

clamp(lo, v, hi) == Max(lo, Min(v, hi))

\* Variant: the joined argv is not searched for shell operators.
normalize_shell_inputs_no_operators(step) ==
    LET raw_command == step.inputs.command
        argv == raw_command.words
        none == [argv |-> <<>>, cwd |-> Absent, timeout_ms |-> 0, max_output_chars |-> 0]
    IN  IF raw_command.kind = "str" /\ raw_command.open_quote
        THEN [exc |-> HTTPException(400, "Invalid shell command syntax")] @@ none
        ELSE IF raw_command.kind = "other"
        THEN [exc |-> HTTPException(400, "shell.exec requires a command string or argv list")] @@ none
        ELSE IF argv = <<>>
        THEN [exc |-> HTTPException(400, "shell.exec command is empty")] @@ none
        ELSE IF ~ int_ok(step.inputs.timeout_ms) \/ ~ int_ok(step.inputs.max_output_chars)
        THEN [exc |-> RuntimeError("invalid literal for int()")] @@ none
        ELSE [exc |-> Ok,
              argv |-> argv,
              cwd |-> resolve(IF step.inputs.cwd = Absent THEN Cwd ELSE step.inputs.cwd),
              timeout_ms |-> clamp(100, step.inputs.timeout_ms.v, 120000),
              max_output_chars |-> clamp(256, step.inputs.max_output_chars.v, 200000)]

normalize_shell_inputs(step) ==
    LET raw_command == step.inputs.command
        argv == raw_command.words
        none == [argv |-> <<>>, cwd |-> Absent, timeout_ms |-> 0, max_output_chars |-> 0]
    IN  IF raw_command.kind = "str" /\ raw_command.open_quote
        THEN [exc |-> HTTPException(400, "Invalid shell command syntax")] @@ none
        ELSE IF raw_command.kind = "other"
        THEN [exc |-> HTTPException(400, "shell.exec requires a command string or argv list")] @@ none
        ELSE IF argv = <<>>
        THEN [exc |-> HTTPException(400, "shell.exec command is empty")] @@ none
        ELSE IF has_forbidden_token(argv)
        THEN [exc |-> HTTPException(403, "Command contains forbidden shell operators")] @@ none
        ELSE IF ~ int_ok(step.inputs.timeout_ms) \/ ~ int_ok(step.inputs.max_output_chars)
        THEN [exc |-> RuntimeError("invalid literal for int()")] @@ none
        ELSE [exc |-> Ok,
              argv |-> argv,
              cwd |-> resolve(IF step.inputs.cwd = Absent THEN Cwd ELSE step.inputs.cwd),
              timeout_ms |-> clamp(100, step.inputs.timeout_ms.v, 120000),
              max_output_chars |-> clamp(256, step.inputs.max_output_chars.v, 200000)]

\* Variant: the shell switch of the config is not consulted.
ensure_shell_enabled_off(config) == Ok

ensure_shell_enabled(config) ==
    IF ~ config.shell.enabled
    THEN HTTPException(403, "Shell is disabled in config")
    ELSE Ok

deny == { "curl", "wget", "ssh" } \cup { "rm", "sudo", "chmod", "chown", "dd", "mkfs", "mount" }

\* Variant: the words are compared as they are written.
enforce_shell_deny_keywords_exact_case(argv) ==
    IF \E i \in DOMAIN argv : argv[i] \in deny
    THEN HTTPException(403, "Command token denied by policy")
    ELSE Ok

enforce_shell_deny_keywords(argv) ==
    IF \E i \in DOMAIN argv : lower(argv[i]) \in deny
    THEN HTTPException(403, "Command token denied by policy")
    ELSE Ok

normalize_arg_path(arg, cwd) ==
    resolve(IF ArgParts(arg).absolute THEN ArgParts(arg).parts ELSE cwd \o ArgParts(arg).parts)

allowed_external ==
    { <<"git", "status">>, <<"git", "diff">>, <<"git", "log">>,
      <<"python", "--version">>, <<"python", "-m", "pip", "--version">>,
      <<"node", "--version">>, <<"npm", "--version">> }

\* Variant: a command that matches no entry is run as an external one.
enforce_shell_allowlist_open(argv) ==
    IF argv[1] \in {"pwd", "ls", "cat", "grep", "find"}
    THEN [exc |-> Ok, mode |-> "internal"]
    ELSE [exc |-> Ok, mode |-> "external"]

enforce_shell_allowlist(argv) ==
    IF argv[1] = "pwd" /\ Len(argv) = 1 THEN [exc |-> Ok, mode |-> "internal"]
    ELSE IF argv[1] = "ls" /\ Len(argv) \in {1, 2} THEN [exc |-> Ok, mode |-> "internal"]
    ELSE IF argv[1] = "cat" /\ Len(argv) = 2 THEN [exc |-> Ok, mode |-> "internal"]
    ELSE IF argv[1] = "grep" /\ Len(argv) \in {3, 4}
    THEN IF Len(argv) = 4 /\ argv[4] # "--recursive"
         THEN [exc |-> HTTPException(403, "Only --recursive is allowed as fourth grep argument"),
               mode |-> "none"]
         ELSE [exc |-> Ok, mode |-> "internal"]
    ELSE IF argv[1] = "find" /\ Len(argv) \in {2, 3} THEN [exc |-> Ok, mode |-> "internal"]
    ELSE IF argv \in allowed_external THEN [exc |-> Ok, mode |-> "external"]
    ELSE [exc |-> HTTPException(403, "Command not allowlisted"), mode |-> "none"]

\* TimeoutError raised by ensure_not_timed_out.
TimeoutError == [code |-> 0 - 1, detail |-> "Shell command timed out"]

ShellOut(exc, exit_code, timed_out) ==
    [exc |-> exc, exit_code |-> exit_code, timed_out |-> timed_out]

\* The first exception of a loop that checks the entries in order.
FirstExc(entries, check(_)) ==
    IF \A i \in DOMAIN entries : check(entries[i]) = Ok
    THEN Ok
    ELSE check(entries[CHOOSE i \in DOMAIN entries :
                        /\ check(entries[i]) # Ok
                        /\ \A k \in 1..(i - 1) : check(entries[k]) = Ok])

\* execute_internal_shell.  slow: the command overruns its budget, so that
\* ensure_not_timed_out raises where it is called.
execute_internal_shell(argv, cwd, plan, config, slow) ==
    LET ensure_exec_scope(p) ==
            ensure_file_read_scope(p, get_allowed_read_roots(plan), config)
        target == IF Len(argv) >= 3 /\ argv[1] = "grep"
                  THEN normalize_arg_path(argv[3], cwd)
                  ELSE IF Len(argv) >= 2 THEN normalize_arg_path(argv[2], cwd)
                  ELSE cwd
    IN  CASE argv[1] = "pwd" -> ShellOut(Ok, 0, FALSE)
          [] argv[1] = "ls" ->
                IF ensure_exec_scope(target) # Ok THEN ShellOut(ensure_exec_scope(target), 0, FALSE)
                ELSE IF ~ exists(target) \/ ~ is_dir(target) THEN ShellOut(Ok, 1, FALSE)
                ELSE IF slow THEN ShellOut(TimeoutError, 0, FALSE)
                ELSE ShellOut(Ok, 0, FALSE)
          [] argv[1] = "cat" ->
                IF ensure_exec_scope(target) # Ok THEN ShellOut(ensure_exec_scope(target), 0, FALSE)
                ELSE IF ~ exists(target) \/ ~ is_file(target) THEN ShellOut(Ok, 1, FALSE)
                ELSE IF slow THEN ShellOut(TimeoutError, 0, FALSE)
                ELSE ShellOut(Ok, 0, FALSE)
          [] argv[1] = "grep" ->
                LET recursive == Len(argv) = 4 /\ argv[4] = "--recursive"
                    listed == IF recursive
                              THEN rglob(target)
                              ELSE SelectSeq(rglob(target), LAMBDA p : Len(p) = Len(target) + 1)
                    files == IF is_file(target) THEN <<target>>
                             ELSE SelectSeq(listed, is_file)
                IN  IF ensure_exec_scope(target) # Ok
                    THEN ShellOut(ensure_exec_scope(target), 0, FALSE)
                    ELSE IF ~ is_file(target) /\ ~ is_dir(target) THEN ShellOut(Ok, 1, FALSE)
                    ELSE IF files = <<>> THEN ShellOut(Ok, 0, FALSE)
                    ELSE IF slow
                    THEN IF ensure_exec_scope(files[1]) # Ok
                         THEN ShellOut(ensure_exec_scope(files[1]), 0, FALSE)
                         ELSE ShellOut(TimeoutError, 0, FALSE)
                    ELSE ShellOut(FirstExc(files, ensure_exec_scope), 0, FALSE)
          [] argv[1] = "find" ->
                LET pattern == IF Len(argv) = 3 THEN argv[3] ELSE "*"
                    items == rglob(target)
                    matched == SelectSeq(items, LAMBDA p : fnmatch(Last(p), pattern))
                IN  IF ensure_exec_scope(target) # Ok
                    THEN ShellOut(ensure_exec_scope(target), 0, FALSE)
                    ELSE IF ~ exists(target) \/ ~ is_dir(target) THEN ShellOut(Ok, 1, FALSE)
                    ELSE IF slow /\ items # <<>> THEN ShellOut(TimeoutError, 0, FALSE)
                    ELSE ShellOut(FirstExc(matched, ensure_exec_scope), 0, FALSE)
          [] OTHER -> ShellOut(Ok, 1, FALSE)

\* execute_external_shell: what subprocess.run does is the environment's.
ExternalOutcomes == { "exit0", "exit1", "TimeoutExpired", "FileNotFoundError", "Exception" }

execute_external_shell(outcome) ==
    CASE outcome = "exit0" -> ShellOut(Ok, 0, FALSE)
      [] outcome = "exit1" -> ShellOut(Ok, 1, FALSE)
      [] outcome = "TimeoutExpired" -> ShellOut(Ok, 124, TRUE)
      [] outcome = "FileNotFoundError" -> ShellOut(Ok, 127, FALSE)
      [] OTHER -> ShellOut(Ok, 1, FALSE)

\* Variant: execute_shell_step does not catch the TimeoutError.
except_timeout_uncaught(out) == out

\* "except TimeoutError" of execute_shell_step: the TimeoutError of an
\* internal command becomes exit code 124.
except_timeout(out) ==
    IF out.exc = TimeoutError THEN ShellOut(Ok, 124, TRUE) ELSE out

\* The part of execute_shell_step that runs the command.
run_shell(mode, argv, cwd, plan, config, slow, outcome) ==
    except_timeout(IF mode = "internal"
                   THEN execute_internal_shell(argv, cwd, plan, config, slow)
                   ELSE execute_external_shell(outcome))

\* Variant: a text as long as the limit counts as truncated.
truncate_output_at_limit(text_len, max_output_chars) ==
    IF text_len < max_output_chars
    THEN [len |-> text_len, truncated |-> FALSE]
    ELSE [len |-> max_output_chars, truncated |-> TRUE]

truncate_output(text_len, max_output_chars) ==
    IF text_len <= max_output_chars
    THEN [len |-> text_len, truncated |-> FALSE]
    ELSE [len |-> max_output_chars, truncated |-> TRUE]

(***************************************************************************)
(* Plans.                                                                  *)
(***************************************************************************)
PermissionScope(type, mode, targets) == [type |-> type, mode |-> mode, targets |-> targets]

\* A prompt, given by what the detections of the router look for in it.
Prompt(search_verb, file_scope, file_word, hedge, quoted, indicator, backtick, inline, tail) ==
    [has_search_verb |-> search_verb, has_file_scope |-> file_scope \/ file_word,
     has_file_word |-> file_word, has_hedge |-> hedge, quoted |-> quoted,
     has_indicator |-> indicator, has_backtick |-> backtick \/ inline # <<>>,
     inline |-> inline, tail |-> tail]

NoInputs ==
    [root |-> Absent, path |-> Absent, cwd |-> Absent, command |-> CmdOther,
     timeout_ms |-> JInt(DEFAULT_SHELL_TIMEOUT_MS),
     max_output_chars |-> JInt(DEFAULT_SHELL_MAX_OUTPUT_CHARS),
     max_results |-> JInt(10), max_snippet_chars |-> JInt(240),
     max_chars |-> JInt(20000), query |-> Query, globs |-> {},
     prompt |-> Prompt(FALSE, FALSE, FALSE, FALSE, <<>>, FALSE, FALSE, <<>>, <<>>)]

Step(step_id, agent, action, inputs, side_effects) ==
    [step_id |-> step_id, agent |-> agent, action |-> action, inputs |-> inputs,
     side_effects |-> side_effects]

Plan(plan_id, requires_approval, required_permissions, steps, estimated_risk, dry_run, router_confidence, router_fallback_used) ==
    [plan_id |-> plan_id, requires_approval |-> requires_approval,
     required_permissions |-> required_permissions, steps |-> steps,
     estimated_risk |-> estimated_risk, dry_run |-> dry_run,
     router_confidence |-> router_confidence,
     router_fallback_used |-> router_fallback_used]

plan_has_side_effects(plan) ==
    \E i \in DOMAIN plan.steps : plan.steps[i].side_effects # "none"

(***************************************************************************)
(* Router.  A prompt is given by what the detectors look for in it: the    *)
(* words it holds, its quoted substrings, its backtick-delimited commands  *)
(* and the text after "run command".                                       *)
(***************************************************************************)
detect_search_query(prompt) ==
    IF prompt.quoted # <<>> THEN prompt.quoted[1] ELSE "TODO"

\* Variant: a prompt with no search verb or no file scope, and no hedged
\* file word, gets a high confidence.
detect_file_search_confidence_sure(prompt) ==
    IF prompt.has_search_verb /\ prompt.has_file_scope /\ prompt.quoted # <<>>
    THEN <<95, TRUE>>
    ELSE IF prompt.has_search_verb /\ prompt.has_file_scope THEN <<82, TRUE>>
    ELSE IF prompt.has_file_word /\ prompt.has_hedge THEN <<45, FALSE>>
    ELSE <<90, FALSE>>

\* Variant: the quoted target is not looked for.
detect_file_search_confidence_unquoted(prompt) ==
    IF prompt.has_search_verb /\ prompt.has_file_scope THEN <<82, TRUE>>
    ELSE IF prompt.has_file_word /\ prompt.has_hedge THEN <<45, FALSE>>
    ELSE <<55, FALSE>>

detect_file_search_confidence(prompt) ==
    IF prompt.has_search_verb /\ prompt.has_file_scope /\ prompt.quoted # <<>>
    THEN <<95, TRUE>>
    ELSE IF prompt.has_search_verb /\ prompt.has_file_scope THEN <<82, TRUE>>
    ELSE IF prompt.has_file_word /\ prompt.has_hedge THEN <<45, FALSE>>
    ELSE <<55, FALSE>>

detect_shell_exec_confidence(prompt) ==
    IF prompt.has_indicator /\ prompt.has_backtick THEN <<93, TRUE>>
    ELSE IF prompt.has_indicator THEN <<84, TRUE>>
    ELSE <<40, FALSE>>

extract_shell_command(prompt) ==
    IF prompt.inline # <<>> THEN CmdStr(prompt.inline[1])
    ELSE IF prompt.tail # <<>> THEN CmdStr(prompt.tail)
    ELSE CmdStr(<<"pwd">>)

\* Variant: the threshold is not applied; a prompt that is routed to no
\* agent gets the direct plan, with the confidence the detection gave.
build_plan_no_threshold(request, plan_id) ==
    LET prompt == request.prompt
        base_folder == IF request.allowed_folders # <<>>
                       THEN request.allowed_folders[1] ELSE Cwd
    IN  IF detect_file_search_confidence(prompt)[2]
        THEN Plan(plan_id, TRUE,
                  << PermissionScope("file", "read", <<base_folder>>) >>,
                  << Step("step-1", "file", "file.search",
                          [NoInputs EXCEPT !.root = base_folder,
                                           !.globs = {"**/*.txt", "**/*.md", "**/*.py"}],
                          "none") >>,
                  "low", request.dry_run, detect_file_search_confidence(prompt)[1], FALSE)
        ELSE Plan(plan_id, FALSE, <<>>,
                  << Step("step-1", "conversation", "conversation.respond",
                          [NoInputs EXCEPT !.prompt = prompt], "none") >>,
                  "low", request.dry_run, detect_file_search_confidence(prompt)[1], FALSE)

build_plan(request, plan_id) ==
    LET prompt == request.prompt
        base_folder == IF request.allowed_folders # <<>>
                       THEN request.allowed_folders[1] ELSE Cwd
        router_confidence == detect_file_search_confidence(prompt)[1]
        should_route_file_search == detect_file_search_confidence(prompt)[2]
        shell_confidence == detect_shell_exec_confidence(prompt)[1]
        should_route_shell_exec == detect_shell_exec_confidence(prompt)[2]
    IN  IF router_confidence < ROUTER_CONFIDENCE_THRESHOLD
        THEN Plan(plan_id, FALSE, <<>>,
                  << Step("step-1", "conversation", "conversation.respond",
                          [NoInputs EXCEPT !.prompt = prompt], "none") >>,
                  "low", request.dry_run, router_confidence, TRUE)
        ELSE IF should_route_file_search
        THEN Plan(plan_id, TRUE,
                  << PermissionScope("file", "read", <<base_folder>>) >>,
                  << Step("step-1", "file", "file.search",
                          [NoInputs EXCEPT !.root = base_folder,
                                           !.globs = {"**/*.txt", "**/*.md", "**/*.py"}],
                          "none") >>,
                  "low", request.dry_run, router_confidence, FALSE)
        ELSE IF should_route_shell_exec /\ shell_confidence >= SHELL_CONFIDENCE_THRESHOLD
        THEN Plan(plan_id, TRUE,
                  << PermissionScope("file", "read", <<base_folder>>),
                     PermissionScope("shell", "exec", <<extract_shell_command(prompt)>>) >>,
                  << Step("step-1", "shell", "shell.exec",
                          [NoInputs EXCEPT !.command = extract_shell_command(prompt),
                                           !.cwd = base_folder],
                          "exec") >>,
                  "medium", FALSE, shell_confidence, FALSE)
        ELSE Plan(plan_id, FALSE, <<>>,
                  << Step("step-1", "conversation", "conversation.respond",
                          [NoInputs EXCEPT !.prompt = prompt], "none") >>,
                  "low", request.dry_run, 90, FALSE)

(***************************************************************************)
(* The plans the clients of the model work with.  RegisteredPlans are the  *)
(* plans found in stored_plans when the model starts (the test suites      *)
(* register theirs the same way); ClientPlans are bodies a client submits  *)
(* to execute under a plan_id that is not stored.                          *)
(***************************************************************************)
Allowed == <<"allowed">>

build_file_search_plan(plan_id, root) ==
    Plan(plan_id, TRUE, << PermissionScope("file", "read", <<root>>) >>,
         << Step("s1", "file", "file.search",
                 [NoInputs EXCEPT !.root = root, !.globs = {"**/*.txt"}], "none") >>,
         "low", TRUE, 95, FALSE)

build_file_read_plan(plan_id, allowed_root, path) ==
    Plan(plan_id, TRUE, << PermissionScope("file", "read", <<allowed_root>>) >>,
         << Step("s1", "file", "file.read_text", [NoInputs EXCEPT !.path = path], "none") >>,
         "low", TRUE, 95, FALSE)

build_shell_plan(plan_id, command, cwd) ==
    Plan(plan_id, TRUE,
         << PermissionScope("file", "read", <<cwd>>),
            PermissionScope("shell", "exec", <<command>>) >>,
         << Step("s1", "shell", "shell.exec",
                 [NoInputs EXCEPT !.command = command, !.cwd = cwd], "exec") >>,
         "medium", FALSE, 95, FALSE)

build_write_plan(plan_id) ==
    Plan(plan_id, TRUE, << PermissionScope("file", "write", <<Allowed>>) >>,
         << Step("s1", "file", "file.write_text",
                 [NoInputs EXCEPT !.path = <<"allowed", "demo.txt">>], "write") >>,
         "medium", TRUE, 95, FALSE)

RegisteredPlans ==
    { build_file_search_plan(1, Allowed),
      build_file_read_plan(2, Allowed, <<"outside", "secret.txt">>),
      build_file_read_plan(3, Allowed, <<"allowed", "a.txt">>),
      build_shell_plan(4, CmdStr(<<"pwd">>), Allowed),
      build_shell_plan(5, CmdStr(<<"whoami">>), Allowed),
      build_shell_plan(6, CmdStr(<<>>), Allowed),
      build_write_plan(7),
      \* the plan the router builds for a prompt that needs no agent
      Plan(10, FALSE, <<>>,
           << Step("step-1", "conversation", "conversation.respond", NoInputs, "none") >>,
           "low", FALSE, 90, FALSE) }

ClientPlans ==
    { \* a read that declares that it needs no approval
      Plan(51, FALSE, << PermissionScope("file", "read", <<Allowed>>) >>,
           << Step("s1", "file", "file.read_text",
                   [NoInputs EXCEPT !.path = <<"allowed", "a.txt">>], "none") >>,
           "low", FALSE, 95, FALSE),
      \* an unknown action followed by a shell step that declares no side effect
      Plan(52, FALSE, <<>>,
           << Step("s1", "browser", "browser.open", NoInputs, "none"),
              Step("s2", "shell", "shell.exec",
                   [NoInputs EXCEPT !.command = CmdStr(<<"pwd">>), !.cwd = Allowed], "none") >>,
           "low", FALSE, 95, FALSE),
      \* a conversation followed by a shell step that declares no side effect
      Plan(53, FALSE, <<>>,
           << Step("s1", "conversation", "conversation.respond", NoInputs, "none"),
              Step("s2", "shell", "shell.exec",
                   [NoInputs EXCEPT !.command = CmdStr(<<"pwd">>), !.cwd = Allowed], "none") >>,
           "low", FALSE, 95, FALSE),
      \* a read that asks for approval under a plan_id of its own
      build_file_read_plan(54, Allowed, <<"allowed", "a.txt">>),
      \* a dry-run write under a plan_id of its own
      build_write_plan(55) }

\* The body a client sends under the plan_id of a plan after changing it.
Tamper(plan) ==
    [plan EXCEPT !.requires_approval = FALSE, !.dry_run = FALSE,
                 !.required_permissions = << PermissionScope("file", "read", <<Allowed>>) >>,
                 !.steps = << Step("s1", "file", "file.read_text",
                                   [NoInputs EXCEPT !.path = <<"allowed", "a.txt">>],
                                   "none") >>]

Prompts ==
    { \* "Can you maybe help around my files?"
      Prompt(FALSE, FALSE, TRUE, TRUE, <<>>, FALSE, FALSE, <<>>, <<>>),
      \* "Search my project folder for 'TODO' and show top 10 files"
      Prompt(TRUE, TRUE, FALSE, FALSE, <<"TODO">>, FALSE, FALSE, <<>>, <<>>) }

RouterRequests ==
    { [prompt |-> pr, allowed_folders |-> <<Allowed>>, dry_run |-> TRUE] : pr \in Prompts }

\* A token id no token was issued under, and the ids uuid4 gives to the
\* plans of the router.
UnknownToken == MaxTokens + 1
RouterPlanId(n) == 100 + n

(***************************************************************************)
(* Transport auth and the routes.  An Authorization header is given by the *)
(* words a single space separates in it; a request can come without one.   *)
(***************************************************************************)
API_TOKEN == "secret-token"

NoHeader == [present |-> FALSE, words |-> << >>]
Header(words) == [present |-> TRUE, words |-> words]

\* Variant: the scheme of the header is not looked at.
require_bearer_any_scheme(authorization) ==
    IF ~ authorization.present \/ authorization.words = << >>
    THEN HTTPException(401, "Missing authorization header")
    ELSE IF Tail(authorization.words) # << API_TOKEN >>
    THEN HTTPException(401, "Invalid bearer token")
    ELSE Ok

\* scheme, _, token = authorization.partition(" "): the first word, and
\* the rest of the header after the first space.
require_bearer(authorization) ==
    IF ~ authorization.present \/ authorization.words = << >>
    THEN HTTPException(401, "Missing authorization header")
    ELSE LET scheme == Head(authorization.words)
             token == Tail(authorization.words)
         IN  IF lower(scheme) # "bearer" \/ token # << API_TOKEN >>
             THEN HTTPException(401, "Invalid bearer token")
             ELSE Ok

\* The routes of the app; depends tells that the route is declared with
\* dependencies=[Depends(require_bearer)].
Route(method, path) == [method |-> method, path |-> path, depends |-> TRUE]

Routes ==
    { Route("GET", "/v1/health"), Route("GET", "/v1/version"),
      Route("GET", "/v1/models"), Route("POST", "/v1/models/download"),
      Route("POST", "/v1/models/set-default"), Route("GET", "/v1/config"),
      Route("POST", "/v1/config/reload"), Route("GET", "/v1/doctor/report"),
      Route("GET", "/v1/doctor/report/export"), Route("GET", "/v1/tasks"),
      Route("GET", "/v1/tasks/{task_id}"), Route("GET", "/v1/tasks/{task_id}/export"),
      Route("GET", "/v1/logs/tail"), Route("GET", "/v1/logs/search"),
      Route("POST", "/v1/logs/export"), Route("POST", "/v1/router/plan"),
      Route("POST", "/v1/approvals/action-card"),
      Route("POST", "/v1/approvals/issue-token"), Route("POST", "/v1/tasks/execute") }

\* The handlers that only read the state of the server.
ReadOnlyPaths ==
    { "/v1/health", "/v1/version", "/v1/models", "/v1/config", "/v1/doctor/report",
      "/v1/doctor/report/export", "/v1/tasks", "/v1/tasks/{task_id}",
      "/v1/tasks/{task_id}/export", "/v1/logs/tail", "/v1/logs/search",
      "/v1/logs/export", "/v1/approvals/action-card" }

\* The Authorization headers the clients of the model send.
Headers ==
    { NoHeader, Header(<< >>),
      Header(<<"Bearer", API_TOKEN>>), Header(<<"BEARER", API_TOKEN>>),
      Header(<<"Basic", API_TOKEN>>), Header(<<API_TOKEN>>), Header(<<"Bearer">>),
      Header(<<"Bearer", "wrong-token">>), Header(<<"Bearer", "", API_TOKEN>>) }

(***************************************************************************)
(* The model registry.                                                     *)
(***************************************************************************)
ModelEntry(model_id, local_path, status) ==
    [model_id |-> model_id, display_name |-> model_id, local_path |-> local_path,
     status |-> status]

ModelsState(installed_models, default_model_id) ==
    [installed_models |-> installed_models, default_model_id |-> default_model_id]

\* The requests the clients of the model send to /v1/models/download.
ModelIds == { "tiny" }
ModelPaths == { Absent, <<"allowed", "a.txt">>, <<"allowed", "missing.txt">> }

(***************************************************************************)
(* State.                                                                  *)
(***************************************************************************)
VARIABLES
    stored_plans,      \* plan_id -> Plan
    approval_tokens,   \* token_id -> ApprovalToken
    approval_lock,     \* the call holding approval_lock, or None
    current_config,    \* AppConfig
    now,               \* the UTC clock, in 1/SubSec seconds
    ticks,             \* the number of times the clock advanced
    calls,             \* worker thread -> the execute request it handles
    tasks,             \* the number of execute requests received
    task_files,        \* task_id -> the TaskTrace in <task_id>.json
    task_index,        \* index.json: a list of TaskSummary
    consumptions,      \* history: the <<token_id, task_id>> of every consumption
    current_models     \* ModelsState

vars == << stored_plans, approval_tokens, approval_lock, current_config, now, ticks, calls, tasks, task_files, task_index, consumptions, current_models >>

Calls == 1..MaxCalls
NoTime == 0 - 1

\* iso(): the timestamp of an instant, at second precision.
iso(dt) == dt \div SubSec
\* datetime.fromisoformat(): the instant a timestamp names.
fromisoformat(ts) == ts * SubSec

NoPlan == Plan(None, FALSE, <<>>, <<>>, "low", FALSE, 0, FALSE)

TaskTrace(task_id, plan, started_at) ==
    [task_id |-> task_id, plan_id |-> plan.plan_id, status |-> "running",
     started_at |-> started_at, ended_at |-> NoTime,
     agent |-> IF plan.steps # <<>> THEN plan.steps[1].agent ELSE "None",
     events |-> <<>>, error |-> "None"]

TaskEvent(level, step_id, message, details) ==
    [timestamp |-> iso(now), level |-> level, step_id |-> step_id,
     message |-> message, details |-> details]

\* A summary that keeps the status the trace was created with.
TaskSummary_running(trace) ==
    [task_id |-> trace.task_id, plan_id |-> trace.plan_id, status |-> "running",
     started_at |-> trace.started_at, ended_at |-> trace.ended_at, agent |-> trace.agent]

TaskSummary(trace) ==
    [task_id |-> trace.task_id, plan_id |-> trace.plan_id, status |-> trace.status,
     started_at |-> trace.started_at, ended_at |-> trace.ended_at, agent |-> trace.agent]

NoShell == [argv |-> <<>>, cwd |-> Absent, timeout_ms |-> 0, max_output_chars |-> 0]

IdleCall ==
    [pc |-> "idle",
     request |-> [plan |-> NoPlan, approval_token_id |-> None],
     plan |-> NoPlan,
     trace |-> TaskTrace(None, NoPlan, NoTime),
     i |-> 1,
     token |-> None,
     shell |-> NoShell,
     entries |-> <<>>,
     exc |-> Ok,
     response |-> [code |-> 0, detail |-> "None"],
     ran |-> <<>>,        \* history: the agent operations the call reached
     enabled_in |-> DefaultConfig,  \* the snapshot ensure_shell_enabled read
     fresh |-> FALSE]     \* history: the cited token was unconsumed at the start

Init ==
    /\ stored_plans \in { [id \in {p.plan_id} |-> p] : p \in RegisteredPlans }
    /\ approval_tokens = << >>
    /\ approval_lock = None
    /\ current_config = DefaultConfig
    /\ now \in 0..(SubSec - 1)
    /\ ticks = 0
    /\ calls = [c \in Calls |-> IdleCall]
    /\ tasks = 0
    /\ task_files = << >>
    /\ task_index = << >>
    /\ consumptions = << >>
    /\ current_models = ModelsState(<< >>, "None")

Quiet == \A c \in Calls : calls[c].pc \in {"idle", "done"}

(***************************************************************************)
(* The handlers other than execute.                                        *)
(***************************************************************************)
\* The clock advances: by one unit, or to within one unit of a token's life.
TickSteps == { 1, TTL_SECONDS * SubSec - 1 }

Tick ==
    /\ ticks < MaxTicks
    /\ \E d \in TickSteps : now' = now + d
    /\ ticks' = ticks + 1
    /\ UNCHANGED << tasks, stored_plans, approval_tokens, approval_lock, current_config, calls, task_files, task_index, consumptions, current_models >>

\* POST /v1/config/reload with config.json holding disk.
reload_config(disk) ==
    /\ current_config' = disk
    /\ UNCHANGED << tasks, stored_plans, approval_tokens, approval_lock, now, ticks,
                    calls, task_files, task_index, consumptions, current_models >>

RouterPlanCount == Cardinality({ id \in DOMAIN stored_plans : id >= RouterPlanId(1) })

\* POST /v1/router/plan
post_router_plan(request) ==
    /\ RouterPlanCount < MaxRouterPlans
    /\ LET plan == build_plan(request, RouterPlanId(RouterPlanCount + 1))
       IN  stored_plans' = (plan.plan_id :> plan) @@ stored_plans
    /\ UNCHANGED << tasks, approval_tokens, approval_lock, current_config, now, ticks, calls, task_files, task_index, consumptions, current_models >>

\* Variant: a token expires at the end of the second its life ends in.
ApprovalToken_whole_seconds(token_id, plan_id, issued_at) ==
    [token_id |-> token_id, plan_id |-> plan_id, issued_at |-> iso(issued_at),
     expires_at |-> iso(issued_at + TTL_SECONDS * SubSec) + 1,
     ttl_seconds |-> TTL_SECONDS, one_time_use |-> TRUE, consumed_at |-> NoTime,
     issued |-> issued_at]

\* The token post_issue_token builds.  Its field issued is not one of the
\* class: it keeps the instant now_utc() returned, the local issued_at of
\* the handler, which the token holds only truncated to the second.
ApprovalToken(token_id, plan_id, issued_at) ==
    [token_id |-> token_id, plan_id |-> plan_id, issued_at |-> iso(issued_at),
     expires_at |-> iso(issued_at + TTL_SECONDS * SubSec),
     ttl_seconds |-> TTL_SECONDS, one_time_use |-> TRUE, consumed_at |-> NoTime,
     issued |-> issued_at]

\* POST /v1/approvals/action-card: 404 for a plan_id that is not stored,
\* else the card of the stored plan.
post_action_card(plan_id, plans) ==
    IF plan_id \notin DOMAIN plans THEN HTTPException(404, "Plan not found") ELSE Ok

\* Variant: issue-token does not look the plan up.
issue_token_lookup_any(plan_id, plans) == Ok

\* The lookup of post_issue_token.
issue_token_lookup(plan_id, plans) ==
    IF plan_id \notin DOMAIN plans THEN HTTPException(404, "Plan not found") ELSE Ok

\* POST /v1/approvals/issue-token; a plan_id that is not stored is answered
\* 404 and changes nothing.
post_issue_token(plan_id) ==
    /\ issue_token_lookup(plan_id, stored_plans) = Ok
    /\ Len(approval_tokens) < MaxTokens
    /\ approval_tokens' =
           Append(approval_tokens, ApprovalToken(Len(approval_tokens) + 1, plan_id, now))
    /\ UNCHANGED << tasks, stored_plans, approval_lock, current_config, now, ticks, calls, task_files, task_index, consumptions, current_models >>

\* POST /v1/models/download; a local_path that is no file is answered 400
\* and changes nothing.
post_models_download(model_id, local_path) ==
    /\ local_path # Absent => is_file(resolve(local_path))
    /\ LET state == current_models
           entry == IF local_path = Absent
                    THEN ModelEntry(model_id, Absent, "download_stubbed")
                    ELSE ModelEntry(model_id, resolve(local_path), "registered")
           kept == SelectSeq(state.installed_models, LAMBDA item : item.model_id # model_id)
       IN  current_models' =
               ModelsState(Append(kept, entry),
                           IF state.default_model_id = "None" THEN model_id
                           ELSE state.default_model_id)
    /\ UNCHANGED << tasks, stored_plans, approval_tokens, approval_lock, current_config, now, ticks, calls, task_files, task_index, consumptions >>

\* POST /v1/models/set-default; a model that is not installed is answered
\* 404 and changes nothing.
post_models_set_default(model_id) ==
    /\ \E k \in DOMAIN current_models.installed_models :
           current_models.installed_models[k].model_id = model_id
    /\ current_models' = [current_models EXCEPT !.default_model_id = model_id]
    /\ UNCHANGED << tasks, stored_plans, approval_tokens, approval_lock, current_config, now, ticks, calls, task_files, task_index, consumptions >>

(***************************************************************************)
(* ApprovalStore.consume, the part of consume_approval_token that runs     *)
(* under approval_lock: the first failing check raises its 403.            *)
(***************************************************************************)
\* Variants of the checks: one that lets a consumed token through, and one
\* that does not compare the token's plan with the plan executed.
consume_check_reusable(plan, approval_token_id, tokens, at) ==
    IF approval_token_id \notin DOMAIN tokens
    THEN HTTPException(403, "Approval token not found")
    ELSE IF tokens[approval_token_id].plan_id # plan.plan_id
    THEN HTTPException(403, "Approval token does not match plan")
    ELSE IF at >= fromisoformat(tokens[approval_token_id].expires_at)
    THEN HTTPException(403, "Approval token expired")
    ELSE Ok

consume_check_unbound(plan, approval_token_id, tokens, at) ==
    IF approval_token_id \notin DOMAIN tokens
    THEN HTTPException(403, "Approval token not found")
    ELSE IF tokens[approval_token_id].consumed_at # NoTime
    THEN HTTPException(403, "Approval token already used")
    ELSE IF at >= fromisoformat(tokens[approval_token_id].expires_at)
    THEN HTTPException(403, "Approval token expired")
    ELSE Ok

\* Variant: the expiry is checked before the consumed_at field.
consume_check_expiry_first(plan, approval_token_id, tokens, at) ==
    IF approval_token_id \notin DOMAIN tokens
    THEN HTTPException(403, "Approval token not found")
    ELSE IF tokens[approval_token_id].plan_id # plan.plan_id
    THEN HTTPException(403, "Approval token does not match plan")
    ELSE IF at >= fromisoformat(tokens[approval_token_id].expires_at)
    THEN HTTPException(403, "Approval token expired")
    ELSE IF tokens[approval_token_id].consumed_at # NoTime
    THEN HTTPException(403, "Approval token already used")
    ELSE Ok

consume_check(plan, approval_token_id, tokens, at) ==
    IF approval_token_id \notin DOMAIN tokens
    THEN HTTPException(403, "Approval token not found")
    ELSE IF tokens[approval_token_id].plan_id # plan.plan_id
    THEN HTTPException(403, "Approval token does not match plan")
    ELSE IF tokens[approval_token_id].consumed_at # NoTime
    THEN HTTPException(403, "Approval token already used")
    ELSE IF at >= fromisoformat(tokens[approval_token_id].expires_at)
    THEN HTTPException(403, "Approval token expired")
    ELSE Ok

\* Variant: the checks and the mark are not one critical section.
lock_ignored(lock) == TRUE

\* "with approval_lock": the lock can be taken when no call holds it.
lock_free(lock) == lock = None

\* Variant: no dry-run gate.
dry_run_unchecked(plan) == FALSE

\* The dry-run gate of post_tasks_execute.
dry_run_blocked(plan) == plan.dry_run /\ plan_has_side_effects(plan)

token_required(plan) == plan.requires_approval \/ plan_has_side_effects(plan)

\* Variant: the body of the request is executed as sent.
body_plan(request_plan, plans) == request_plan

\* The plan execute works on: the stored copy when there is one.
effective_plan(request_plan, plans) ==
    IF request_plan.plan_id \in DOMAIN plans
    THEN plans[request_plan.plan_id]
    ELSE request_plan

Respond(call, response) == [call EXCEPT !.pc = "done", !.response = response]

Ran(call, op) ==
    [call EXCEPT !.ran = Append(@, [step |-> call.i, op |-> op, config |-> current_config])]

\* Variant: an event is put in front of the events of the trace.
AddEvent_in_front(call, level, step_id, message, details) ==
    [call EXCEPT !.trace.events = <<TaskEvent(level, step_id, message, details)>> \o @]

AddEvent(call, level, step_id, message, details) ==
    [call EXCEPT !.trace.events = Append(@, TaskEvent(level, step_id, message, details))]

\* Variant: a step of an unsupported action is skipped.
Fail_skip_step(call, exc) ==
    IF exc = HTTPException(400, "Unsupported action")
    THEN [call EXCEPT !.i = @ + 1, !.pc = "step"]
    ELSE IF exc.code > 0
    THEN [call EXCEPT !.trace.status = "failed",
                      !.trace.error = "HTTP exception during execution",
                      !.trace.ended_at = iso(now),
                      !.exc = exc, !.pc = "persist"]
    ELSE [AddEvent(call, "error", "None", "Execution failed", exc.detail)
            EXCEPT !.trace.status = "failed",
                   !.trace.error = exc.detail,
                   !.trace.ended_at = iso(now),
                   !.exc = Ok, !.pc = "persist"]

\* Variant: the loop goes on to the next step after an exception.
Fail_continue(call, exc) == [call EXCEPT !.i = @ + 1, !.pc = "step"]

\* Variant: every exception is handled as an HTTPException is.
Fail_reraise(call, exc) ==
    [call EXCEPT !.trace.status = "failed",
                 !.trace.error = "HTTP exception during execution",
                 !.trace.ended_at = iso(now),
                 !.exc = exc, !.pc = "persist"]

\* The two except clauses of post_tasks_execute: an HTTPException is
\* re-raised after the failed trace is persisted, any other exception is
\* answered with the failed trace.
Fail(call, exc) ==
    IF exc.code > 0
    THEN [call EXCEPT !.trace.status = "failed",
                      !.trace.error = "HTTP exception during execution",
                      !.trace.ended_at = iso(now),
                      !.exc = exc, !.pc = "persist"]
    ELSE [AddEvent(call, "error", "None", "Execution failed", exc.detail)
            EXCEPT !.trace.status = "failed",
                   !.trace.error = exc.detail,
                   !.trace.ended_at = iso(now),
                   !.exc = Ok, !.pc = "persist"]

\* POST /v1/tasks/execute, up to the point where the token is looked up:
\* the plan lookup, the trace, the dry-run gate and the token requirement.
ExecuteStart(c, request_plan, approval_token_id) ==
    /\ calls[c].pc \in {"idle", "done"}
    /\ \A d \in Calls : d < c => calls[d].pc \notin {"idle", "done"}
    /\ tasks < MaxTasks
    /\ tasks' = tasks + 1
    /\ LET plan == effective_plan(request_plan, stored_plans)
           call == [IdleCall EXCEPT
                       !.request = [plan |-> request_plan,
                                    approval_token_id |-> approval_token_id],
                       !.plan = plan,
                       !.trace = TaskTrace(tasks + 1, plan, iso(now)),
                       !.fresh = /\ approval_token_id \in DOMAIN approval_tokens
                                 /\ approval_tokens[approval_token_id].consumed_at = NoTime]
       IN  calls' = [calls EXCEPT ![c] =
               IF dry_run_blocked(plan)
               THEN Respond(call, HTTPException(403,
                                "Dry-run plans cannot execute side-effect steps"))
               ELSE IF ~ token_required(plan)
               THEN [call EXCEPT !.pc = "step"]
               ELSE IF approval_token_id = None
               THEN Respond(call, HTTPException(403, "Approval token required"))
               ELSE [call EXCEPT !.pc = "consume"]]
    /\ UNCHANGED << stored_plans, approval_tokens, approval_lock, current_config,
                    now, ticks, task_files, task_index, consumptions, current_models >>

\* Variant: the token is marked before its expiry is looked at.
ConsumeCheck_mark_first(c) ==
    /\ calls[c].pc = "consume"
    /\ lock_free(approval_lock)
    /\ LET call == calls[c]
           token_id == call.request.approval_token_id
           exc == consume_check(call.plan, token_id, approval_tokens, now)
       IN  IF exc = HTTPException(403, "Approval token expired")
           THEN /\ calls' = [calls EXCEPT ![c] = Respond(call, exc)]
                /\ approval_tokens' =
                       [approval_tokens EXCEPT ![token_id].consumed_at = iso(now)]
                /\ consumptions' = Append(consumptions, << token_id, call.trace.task_id >>)
                /\ UNCHANGED approval_lock
           ELSE IF exc # Ok
           THEN /\ calls' = [calls EXCEPT ![c] = Respond(call, exc)]
                /\ UNCHANGED << approval_lock, approval_tokens, consumptions >>
           ELSE /\ calls' = [calls EXCEPT ![c].pc = "mark"]
                /\ approval_lock' = c
                /\ UNCHANGED << approval_tokens, consumptions >>
    /\ UNCHANGED << tasks, stored_plans, current_config, now, ticks, task_files, task_index, current_models >>

\* consume_approval_token: "with approval_lock", the lookup and the checks.
\* A failed check leaves the with block, which releases the lock.
ConsumeCheck(c) ==
    /\ calls[c].pc = "consume"
    /\ lock_free(approval_lock)
    /\ LET call == calls[c]
           exc == consume_check(call.plan, call.request.approval_token_id,
                                approval_tokens, now)
       IN  IF exc # Ok
           THEN /\ calls' = [calls EXCEPT ![c] = Respond(call, exc)]
                /\ UNCHANGED approval_lock
           ELSE /\ calls' = [calls EXCEPT ![c].pc = "mark"]
                /\ approval_lock' = c
    /\ UNCHANGED << tasks, stored_plans, approval_tokens, current_config, now, ticks, task_files, task_index, consumptions, current_models >>

\* consume_approval_token: the token is marked, the lock released, and
\* execute appends the event that names the token.
ConsumeMark(c) ==
    /\ calls[c].pc = "mark"
    /\ LET call == calls[c]
           token_id == call.request.approval_token_id
       IN  /\ approval_tokens' = [approval_tokens EXCEPT ![token_id].consumed_at = iso(now)]
           /\ calls' = [calls EXCEPT ![c] =
                  [AddEvent(call, "info", "None", "Approval token validated", token_id)
                     EXCEPT !.token = token_id, !.pc = "step"]]
    /\ approval_lock' = None
    /\ consumptions' = Append(consumptions, << calls[c].request.approval_token_id,
                                                calls[c].trace.task_id >>)
    /\ UNCHANGED << tasks, stored_plans, current_config, now, ticks,
                    task_files, task_index, current_models >>

(***************************************************************************)
(* The loop over the steps of the plan.                                    *)
(***************************************************************************)
NextStep(call) == [call EXCEPT !.i = @ + 1, !.pc = "step"]

\* file.search; search_result is what file_search returned or raised.
search_step(call, step, search_result) ==
    LET started == AddEvent(call, "info", step.step_id, "search started", step.inputs.root)
    IN  IF ~ int_ok(step.inputs.max_results) \/ ~ int_ok(step.inputs.max_snippet_chars)
        THEN Fail(call, RuntimeError("invalid literal for int()"))
        ELSE IF search_result.exc # Ok
        THEN Fail(Ran(started, "file_search"), search_result.exc)
        ELSE NextStep(AddEvent(AddEvent(Ran(started, "file_search"),
                                        "info", step.step_id, "scanned files", "None"),
                               "info", step.step_id, "search completed",
                               search_result.results))

\* file.read_text; read_result is what file_read_text returned or raised.
read_step(call, step, read_result) ==
    IF ~ int_ok(step.inputs.max_chars)
    THEN Fail(call, RuntimeError("invalid literal for int()"))
    ELSE IF read_result.exc # Ok
    THEN Fail(Ran(call, "file_read_text"), read_result.exc)
    ELSE NextStep(AddEvent(Ran(call, "file_read_text"), "info", step.step_id,
                           "file read completed", read_result.read))

\* Variant: the side effect the step declares is not looked at.
shell_gate_undeclared(call, step) ==
    IF ensure_shell_enabled(current_config) # Ok
    THEN Fail(call, ensure_shell_enabled(current_config))
    ELSE IF normalize_shell_inputs(step).exc # Ok
    THEN Fail(call, normalize_shell_inputs(step).exc)
    ELSE [call EXCEPT !.pc = "shell_policy",
                      !.shell = [f \in DOMAIN NoShell |-> normalize_shell_inputs(step)[f]],
                      !.enabled_in = current_config]

\* shell.exec, the head of execute_shell_step: the declared side effect,
\* the shell switch of the live config and the normalization of the inputs.
shell_gate(call, step) ==
    IF step.side_effects # "exec"
    THEN Fail(call, HTTPException(403, "shell.exec step must declare side_effects=exec"))
    ELSE IF ensure_shell_enabled(current_config) # Ok
    THEN Fail(call, ensure_shell_enabled(current_config))
    ELSE IF normalize_shell_inputs(step).exc # Ok
    THEN Fail(call, normalize_shell_inputs(step).exc)
    ELSE [call EXCEPT !.pc = "shell_policy",
                      !.shell = [f \in DOMAIN NoShell |-> normalize_shell_inputs(step)[f]],
                      !.enabled_in = current_config]

\* The branch of the loop its step's action selects.
dispatch(call, step) ==
    CASE step.action = "file.search" ->
            search_step(call, step,
                        file_search(IF step.inputs.root = Absent THEN Cwd
                                    ELSE step.inputs.root,
                                    step.inputs.query, step.inputs.globs,
                                    step.inputs.max_results.v,
                                    step.inputs.max_snippet_chars.v,
                                    get_allowed_read_roots(call.plan), current_config))
      [] step.action = "file.read_text" ->
            read_step(call, step,
                      file_read_text(step.inputs.path, step.inputs.max_chars.v,
                                     get_allowed_read_roots(call.plan),
                                     current_config))
      [] step.action = "conversation.respond" ->
            NextStep(AddEvent(Ran(call, "conversation"), "info", step.step_id,
                              "Conversation response generated", "Echo"))
      [] step.action = "shell.exec" -> shell_gate(call, step)
      [] OTHER -> Fail(call, HTTPException(400, "Unsupported action"))

\* One turn of the loop: the next step of the plan, or the end of the plan.
ExecuteStep(c) ==
    /\ calls[c].pc = "step"
    /\ \E call \in { calls[c] } :
         IF call.i > Len(call.plan.steps)
         THEN calls' = [calls EXCEPT ![c] =
                  [call EXCEPT !.trace.status = "completed",
                               !.trace.ended_at = iso(now), !.pc = "persist"]]
         ELSE \E step \in { call.plan.steps[call.i] } :
              \E executing \in { AddEvent(call, "info", step.step_id, "Executing",
                                          step.action) } :
                  calls' = [calls EXCEPT ![c] = dispatch(executing, step)]
    /\ UNCHANGED << tasks, stored_plans, approval_tokens, approval_lock, current_config,
                    now, ticks, task_files, task_index, consumptions, current_models >>

\* The lengths stdout + stderr of a command can have.
OutLens == { 10, 300 }
TimedOutLen == 18

\* Variant: a command that ends with an exit code other than 0 fails the task.
shell_events_exit_fails(call, step, out, text) ==
    LET done == AddEvent(AddEvent(call, "info", step.step_id, "shell command preview",
                                  call.shell.argv),
                         "info", step.step_id, "shell command completed",
                         [exit_code |-> out.exit_code, timed_out |-> out.timed_out,
                          truncated |-> text.truncated, output |-> text.len])
        warned == IF text.truncated
                  THEN AddEvent(done, "warn", step.step_id, "shell output truncated",
                                call.shell.max_output_chars)
                  ELSE done
    IN  IF out.timed_out
        THEN [warned EXCEPT !.trace.status = "timeout",
                            !.trace.ended_at = iso(now), !.pc = "persist"]
        ELSE IF out.exit_code # 0
        THEN Fail(warned, HTTPException(500, "Command failed"))
        ELSE NextStep(warned)

\* Variant: the trace of a command that timed out is persisted as it is.
shell_events_unmarked(call, step, out, text) ==
    LET done == AddEvent(AddEvent(call, "info", step.step_id, "shell command preview",
                                  call.shell.argv),
                         "info", step.step_id, "shell command completed",
                         [exit_code |-> out.exit_code, timed_out |-> out.timed_out,
                          truncated |-> text.truncated, output |-> text.len])
        warned == IF text.truncated
                  THEN AddEvent(done, "warn", step.step_id, "shell output truncated",
                                call.shell.max_output_chars)
                  ELSE done
    IN  IF out.timed_out
        THEN [warned EXCEPT !.pc = "persist"]
        ELSE NextStep(warned)

\* The events execute appends after execute_shell_step returned, and where
\* it goes from there: a command that timed out ends the task.
shell_events(call, step, out, text) ==
    LET done == AddEvent(AddEvent(call, "info", step.step_id, "shell command preview",
                                  call.shell.argv),
                         "info", step.step_id, "shell command completed",
                         [exit_code |-> out.exit_code, timed_out |-> out.timed_out,
                          truncated |-> text.truncated, output |-> text.len])
        warned == IF text.truncated
                  THEN AddEvent(done, "warn", step.step_id, "shell output truncated",
                                call.shell.max_output_chars)
                  ELSE done
    IN  IF out.timed_out
        THEN [warned EXCEPT !.trace.status = "timeout",
                            !.trace.ended_at = iso(now), !.pc = "persist"]
        ELSE NextStep(warned)

\* shell.exec, the rest of execute_shell_step and the events of the step:
\* the scope of cwd, the deny-list, the allow-list, then the command.
ExecuteShell(c, slow, outcome, out_len) ==
    /\ calls[c].pc = "shell_policy"
    /\ \E call \in { calls[c] } :
       \E scope \in { ensure_file_read_scope(call.shell.cwd,
                                             get_allowed_read_roots(call.plan),
                                             current_config) },
          denied \in { enforce_shell_deny_keywords(call.shell.argv) },
          allow \in { enforce_shell_allowlist(call.shell.argv) } :
       \E out \in { run_shell(allow.mode, call.shell.argv, call.shell.cwd, call.plan,
                              current_config, slow, outcome) } :
       \E text \in { truncate_output(IF out.timed_out THEN TimedOutLen ELSE out_len,
                                      call.shell.max_output_chars) } :
           calls' = [calls EXCEPT ![c] =
               IF scope # Ok THEN Fail(Ran(call, "exec_scope"), scope)
               ELSE IF denied # Ok
               THEN Fail(Ran(Ran(call, "exec_scope"), "deny_list"), denied)
               ELSE IF allow.exc # Ok
               THEN Fail(Ran(Ran(Ran(call, "exec_scope"), "deny_list"), "allow_list"),
                         allow.exc)
               ELSE IF out.exc # Ok
               THEN Fail(Ran(Ran(Ran(Ran(call, "exec_scope"), "deny_list"), "allow_list"),
                             "command"), out.exc)
               ELSE shell_events(Ran(Ran(Ran(Ran(call, "exec_scope"), "deny_list"),
                                         "allow_list"), "command"),
                                 call.plan.steps[call.i], out, text)]
    /\ UNCHANGED << tasks, stored_plans, approval_tokens, approval_lock, current_config,
                    now, ticks, task_files, task_index, consumptions, current_models >>

(***************************************************************************)
(* TraceStore: persist_task_trace writes the trace file, loads the index,  *)
(* and rewrites it.  No lock is held between the load and the write.       *)
(***************************************************************************)
\* Variant: the entries stay in the order they were appended in.
sort_entries_as_appended(entries) == entries

\* entries.sort(key=started_at, reverse=True): a stable sort.
RECURSIVE sort_entries(_)
sort_entries(entries) ==
    IF entries = <<>> THEN <<>>
    ELSE LET sorted == sort_entries(SubSeq(entries, 1, Len(entries) - 1))
             e == entries[Len(entries)]
             before == SelectSeq(sorted, LAMBDA x : x.started_at >= e.started_at)
             after == SelectSeq(sorted, LAMBDA x : x.started_at < e.started_at)
         IN  before \o <<e>> \o after

\* The trace file is replaced and the index loaded, without this task.
PersistTrace(c) ==
    /\ calls[c].pc = "persist"
    /\ LET trace == calls[c].trace
       IN  /\ task_files' = (trace.task_id :> trace) @@ task_files
           /\ calls' = [calls EXCEPT
                  ![c].entries = SelectSeq(task_index, LAMBDA e : e.task_id # trace.task_id),
                  ![c].pc = "index"]
    /\ UNCHANGED << tasks, stored_plans, approval_tokens, approval_lock, current_config,
                    now, ticks, task_index, consumptions, current_models >>

\* The index is rewritten, and the handler answers: the trace, or the
\* HTTPException it caught.
WriteIndex(c) ==
    /\ calls[c].pc = "index"
    /\ LET call == calls[c]
       IN  /\ task_index' = sort_entries(Append(call.entries, TaskSummary(call.trace)))
           /\ calls' = [calls EXCEPT ![c] =
                  Respond(call, IF call.exc = Ok THEN Ok ELSE call.exc)]
    /\ UNCHANGED << tasks, stored_plans, approval_tokens, approval_lock, current_config,
                    now, ticks, task_files, consumptions, current_models >>

(***************************************************************************)
(* Specifications.  Spec: the requests of one client, each answered before *)
(* the next is sent.  SpecConc: requests in flight together.               *)
(***************************************************************************)
StoredPlans == { stored_plans[id] : id \in DOMAIN stored_plans }

RequestPlans == StoredPlans \cup { Tamper(p) : p \in StoredPlans } \cup ClientPlans

TokenIds == { None, UnknownToken } \cup DOMAIN approval_tokens

Handler ==
    \/ \E c \in Calls : ConsumeCheck(c)
    \/ \E c \in Calls : ConsumeMark(c)
    \/ \E c \in Calls : ExecuteStep(c)
    \/ \E c \in Calls, slow \in BOOLEAN, outcome \in ExternalOutcomes, out_len \in OutLens :
           ExecuteShell(c, slow, outcome, out_len)
    \/ \E c \in Calls : PersistTrace(c)
    \/ \E c \in Calls : WriteIndex(c)

\* The client sends a request once every request before it is answered.
Next ==
    \/ Quiet /\ Tick
    \/ Quiet /\ \E disk \in ConfigFiles : reload_config(disk)
    \/ Quiet /\ \E plan_id \in DOMAIN stored_plans : post_issue_token(plan_id)
    \/ Quiet /\ \E c \in Calls, request_plan \in RequestPlans, approval_token_id \in TokenIds :
                    ExecuteStart(c, request_plan, approval_token_id)
    \/ Handler

Spec == Init /\ [][Next]_vars

\* Requests in flight together, on a server started with a folder allowed
\* and the shell enabled, which holds one plan: one the router built, or a
\* registered one.
ConcPlans ==
    { build_plan(request, RouterPlanId(1)) : request \in RouterRequests }
        \cup { build_shell_plan(4, CmdStr(<<"pwd">>), Allowed), build_write_plan(7) }
InitConc ==
    /\ stored_plans \in { [id \in {p.plan_id} |-> p] : p \in ConcPlans }
    /\ approval_tokens = << >>
    /\ approval_lock = None
    /\ current_config = AppConfig({<<"allowed">>, <<"linked">>}, TRUE)
    /\ now = 0
    /\ ticks = 0
    /\ calls = [c \in Calls |-> IdleCall]
    /\ tasks = 0
    /\ task_files = << >>
    /\ task_index = << >>
    /\ consumptions = << >>
    /\ current_models = ModelsState(<< >>, "None")

NextConc ==
    \/ Tick
    \/ \E plan_id \in DOMAIN stored_plans : post_issue_token(plan_id)
    \/ \E c \in Calls, request_plan \in StoredPlans \cup { Tamper(p) : p \in StoredPlans },
          approval_token_id \in { None } \cup DOMAIN approval_tokens :
           ExecuteStart(c, request_plan, approval_token_id)
    \/ Handler

SpecConc == InitConc /\ [][NextConc]_vars

(***************************************************************************)
(* SpecScope and SpecShell: a server that holds one registered plan, whose *)
(* client has tokens issued for it and executes it with them.  SpecScope   *)
(* ranges over the path read (or the cwd of the command), the read targets *)
(* of the plan and the allowed_folders of the configuration loaded at      *)
(* startup; SpecShell over the argv of the command.                        *)
(***************************************************************************)
NextApproved ==
    \/ Quiet /\ \E plan_id \in DOMAIN stored_plans : post_issue_token(plan_id)
    \/ Quiet /\ \E c \in Calls, request_plan \in StoredPlans,
                    approval_token_id \in DOMAIN approval_tokens :
                    ExecuteStart(c, request_plan, approval_token_id)
    \/ Handler

ScopePaths ==
    { Tree[i] : i \in DOMAIN Tree } \cup { <<>>, <<"allowed", "missing.txt">> }

ScopeTargets ==
    { <<>>, << <<"allowed">> >>, << <<"outside">> >>, << <<>> >>,
      << <<"linked">>, <<"etc">> >> }

ScopeFolders ==
    { {}, { <<"allowed">> }, { <<"outside">> }, { <<>> },
      { <<"linked">>, <<"etc">> }, { <<"allowed">>, <<"outside">> } }

ScopePlans ==
    { Plan(2, TRUE, << PermissionScope("file", "read", targets) >>,
           << Step("s1", "file", "file.read_text", [NoInputs EXCEPT !.path = path], "none") >>,
           "low", TRUE, 95, FALSE) : path \in ScopePaths, targets \in ScopeTargets }
        \cup
    { Plan(4, TRUE,
           << PermissionScope("file", "read", targets),
              PermissionScope("shell", "exec", << CmdStr(<<"pwd">>) >>) >>,
           << Step("s1", "shell", "shell.exec",
                   [NoInputs EXCEPT !.command = CmdStr(<<"pwd">>), !.cwd = path], "exec") >>,
           "medium", FALSE, 95, FALSE) : path \in ScopePaths, targets \in ScopeTargets }

InitScope ==
    /\ stored_plans \in { [id \in {p.plan_id} |-> p] : p \in ScopePlans }
    /\ approval_tokens = << >>
    /\ approval_lock = None
    /\ current_config \in { AppConfig(folders, TRUE) : folders \in ScopeFolders }
    /\ now = 0
    /\ ticks = 0
    /\ calls = [c \in Calls |-> IdleCall]
    /\ tasks = 0
    /\ task_files = << >>
    /\ task_index = << >>
    /\ consumptions = << >>
    /\ current_models = ModelsState(<< >>, "None")

SpecScope == InitScope /\ [][NextApproved]_vars

\* The command lines: a first word and up to MaxArgs arguments, or nothing.
MaxArgs == 3
ShellHeads == { "pwd", "ls", "cat", "grep", "find", "git", "whoami" }
ShellArgs == { "a.txt", "--recursive", "status", "RM" }

ShellArgvs ==
    { <<>> } \cup
    { <<head>> \o args : head \in ShellHeads,
                         args \in UNION { [1..n -> ShellArgs] : n \in 0..MaxArgs } }

ShellPlans ==
    { [build_shell_plan(4, CmdStr(argv), Allowed)
         EXCEPT !.steps[1].inputs.timeout_ms = timeout_ms] :
        argv \in ShellArgvs, timeout_ms \in { JInt(DEFAULT_SHELL_TIMEOUT_MS), JStr } }

InitShell ==
    /\ stored_plans \in { [id \in {p.plan_id} |-> p] : p \in ShellPlans }
    /\ approval_tokens = << >>
    /\ approval_lock = None
    /\ current_config = AppConfig({<<"allowed">>, <<"linked">>}, TRUE)
    /\ now = 0
    /\ ticks = 0
    /\ calls = [c \in Calls |-> IdleCall]
    /\ tasks = 0
    /\ task_files = << >>
    /\ task_index = << >>
    /\ consumptions = << >>
    /\ current_models = ModelsState(<< >>, "None")

SpecShell == InitShell /\ [][NextApproved]_vars

(***************************************************************************)
(* SpecSteps: a server that holds one registered plan of two steps, drawn  *)
(* from a catalog of steps that succeed, are denied, raise or time out;    *)
(* the configuration loaded at startup has the shell enabled or not.       *)
(***************************************************************************)
shell_step(step_id, command, cwd, timeout_ms) ==
    Step(step_id, "shell", "shell.exec",
         [NoInputs EXCEPT !.command = command, !.cwd = cwd, !.timeout_ms = timeout_ms],
         "exec")

StepCatalog(step_id) ==
    { Step(step_id, "conversation", "conversation.respond", NoInputs, "none"),
      Step(step_id, "file", "file.read_text",
           [NoInputs EXCEPT !.path = <<"allowed", "a.txt">>], "none"),
      Step(step_id, "file", "file.read_text",
           [NoInputs EXCEPT !.path = <<"outside", "secret.txt">>], "none"),
      Step(step_id, "file", "file.read_text",
           [NoInputs EXCEPT !.path = <<"allowed", "missing.txt">>], "none"),
      Step(step_id, "file", "file.search",
           [NoInputs EXCEPT !.root = Allowed, !.max_results = JStr], "none"),
      Step(step_id, "browser", "browser.open", NoInputs, "none"),
      shell_step(step_id, CmdStr(<<"pwd">>), Allowed, JInt(DEFAULT_SHELL_TIMEOUT_MS)),
      shell_step(step_id, CmdStr(<<"ls">>), Allowed, JInt(1)),
      shell_step(step_id, CmdStr(<<"cat", "missing.txt">>), Allowed, JInt(1)),
      shell_step(step_id, CmdStr(<<"git", "status">>), Allowed, JInt(1)),
      shell_step(step_id, CmdStr(<<"whoami">>), Allowed, JInt(DEFAULT_SHELL_TIMEOUT_MS)),
      shell_step(step_id, CmdStr(<<"pwd">>), Allowed, JStr),
      shell_step(step_id, CmdStr(<<"ls", "a;b">>), Allowed, JInt(DEFAULT_SHELL_TIMEOUT_MS)),
      shell_step(step_id, CmdList(<<"pwd", "&&", "RM">>), <<"outside">>, JStr),
      shell_step(step_id, CmdStr(<<"git", "status", ">", "x|y">>), Allowed,
                 JInt(DEFAULT_SHELL_TIMEOUT_MS)) }

StepPlans ==
    { Plan(8, TRUE,
           << PermissionScope("file", "read", <<Allowed>>),
              PermissionScope("shell", "exec", << CmdStr(<<"pwd">>) >>) >>,
           << first, second >>, "medium", FALSE, 95, FALSE) :
        first \in StepCatalog("s1"), second \in StepCatalog("s2") }

InitSteps ==
    /\ stored_plans \in { [id \in {p.plan_id} |-> p] : p \in StepPlans }
    /\ approval_tokens = << >>
    /\ approval_lock = None
    /\ current_config \in { AppConfig({<<"allowed">>, <<"linked">>}, enabled) :
                              enabled \in BOOLEAN }
    /\ now = 0
    /\ ticks = 0
    /\ calls = [c \in Calls |-> IdleCall]
    /\ tasks = 0
    /\ task_files = << >>
    /\ task_index = << >>
    /\ consumptions = << >>
    /\ current_models = ModelsState(<< >>, "None")

SpecSteps == InitSteps /\ [][NextApproved]_vars

(***************************************************************************)
(* SpecAuth: the requests of one client to the routes of the app, with and *)
(* without a valid Authorization header, on a server as it starts: the     *)
(* plans it holds are those its router builds.                             *)
(***************************************************************************)
\* The handler of the route runs.
Serve(c, route) ==
    \/ /\ route.path = "/v1/tasks/execute"
       /\ \E request_plan \in StoredPlans,
              approval_token_id \in { None } \cup DOMAIN approval_tokens :
              ExecuteStart(c, request_plan, approval_token_id)
    \/ /\ route.path = "/v1/approvals/issue-token"
       /\ \E plan_id \in DOMAIN stored_plans : post_issue_token(plan_id)
    \/ /\ route.path = "/v1/router/plan"
       /\ \E request \in RouterRequests : post_router_plan(request)
    \/ /\ route.path = "/v1/config/reload"
       /\ \E disk \in ConfigFiles : reload_config(disk)
    \/ /\ route.path = "/v1/models/download"
       /\ \E model_id \in ModelIds, local_path \in ModelPaths :
              post_models_download(model_id, local_path)
    \/ /\ route.path = "/v1/models/set-default"
       /\ \E model_id \in ModelIds : post_models_set_default(model_id)
    \/ /\ route.path \in ReadOnlyPaths
       /\ UNCHANGED vars

\* A request to a route: its dependencies run first, and an exception one
\* of them raises is the answer; the handler runs when none raised.
Request(c, route, authorization) ==
    IF route.depends /\ require_bearer(authorization) # Ok
    THEN /\ calls[c].pc \in {"idle", "done"}
         /\ \A d \in Calls : d < c => calls[d].pc \notin {"idle", "done"}
         /\ calls' = [calls EXCEPT ![c] = Respond(IdleCall, require_bearer(authorization))]
         /\ UNCHANGED << tasks, stored_plans, approval_tokens, approval_lock,
                         current_config, now, ticks, task_files, task_index,
                         consumptions, current_models >>
    ELSE Serve(c, route)

InitAuth ==
    /\ stored_plans = << >>
    /\ approval_tokens = << >>
    /\ approval_lock = None
    /\ current_config = DefaultConfig
    /\ now = 0
    /\ ticks = 0
    /\ calls = [c \in Calls |-> IdleCall]
    /\ tasks = 0
    /\ task_files = << >>
    /\ task_index = << >>
    /\ consumptions = << >>
    /\ current_models = ModelsState(<< >>, "None")

\* The plans of the router hold no shell.exec step.
NextAuth ==
    \/ Quiet /\ \E c \in Calls, route \in Routes, authorization \in Headers :
                    Request(c, route, authorization)
    \/ \E c \in Calls : ConsumeCheck(c)
    \/ \E c \in Calls : ConsumeMark(c)
    \/ \E c \in Calls : ExecuteStep(c)
    \/ \E c \in Calls : PersistTrace(c)
    \/ \E c \in Calls : WriteIndex(c)

SpecAuth == InitAuth /\ [][NextAuth]_vars

(***************************************************************************)
(* SpecRouter: a server as it starts, whose client asks the router for a   *)
(* plan, has tokens issued for it and executes it.  The prompts range over *)
(* what the detections of the router look at.                              *)
(***************************************************************************)
PromptSpace ==
    { Prompt(search_verb, file_scope, file_word, hedge, quoted, indicator, backtick,
             inline, tail) :
        search_verb \in BOOLEAN, file_scope \in BOOLEAN, file_word \in BOOLEAN,
        hedge \in BOOLEAN, quoted \in { <<>>, <<"TODO">> }, indicator \in BOOLEAN,
        backtick \in BOOLEAN, inline \in { <<>>, << <<"ls">> >> },
        tail \in { <<>>, <<"git", "status">> } }

RequestSpace ==
    { [prompt |-> prompt, allowed_folders |-> allowed_folders, dry_run |-> dry_run] :
        prompt \in PromptSpace, allowed_folders \in { <<>>, <<Allowed>> },
        dry_run \in BOOLEAN }

\* The plan ids the client cites: ids the router gave, or may give, to a
\* plan, and an id it gives to none.
PlanIdSpace == { RouterPlanId(n) : n \in 1..(MaxRouterPlans + 1) }

NextRouter ==
    \/ Quiet /\ \E request \in RequestSpace : post_router_plan(request)
    \/ Quiet /\ \E plan_id \in PlanIdSpace : post_issue_token(plan_id)
    \/ Quiet /\ \E c \in Calls, request_plan \in StoredPlans,
                    approval_token_id \in { None } \cup DOMAIN approval_tokens :
                    ExecuteStart(c, request_plan, approval_token_id)
    \/ \E c \in Calls : ConsumeCheck(c)
    \/ \E c \in Calls : ConsumeMark(c)
    \/ \E c \in Calls : ExecuteStep(c)
    \/ \E c \in Calls : PersistTrace(c)
    \/ \E c \in Calls : WriteIndex(c)

SpecRouter == InitAuth /\ [][NextRouter]_vars

(***************************************************************************)
(* Properties.                                                             *)
(***************************************************************************)
Done(c) == calls[c].pc = "done"
Active(c) == calls[c].pc # "idle"
Ops(call) == { call.ran[i].op : i \in DOMAIN call.ran }
Messages(call) == { call.trace.events[i].message : i \in DOMAIN call.trace.events }
SideEffects(plan) == { plan.steps[i].side_effects : i \in DOMAIN plan.steps } \ { "none" }
Consumers(t) == { i \in DOMAIN consumptions : consumptions[i][1] = t }
ConsumedBefore(t, call) ==
    \E i \in Consumers(t) : consumptions[i][2] < call.trace.task_id
AlreadyUsed == HTTPException(403, "Approval token already used")
DryRunRejection == HTTPException(403, "Dry-run plans cannot execute side-effect steps")

\* A call made after token t was consumed, citing t.
CitesConsumed(c, t) ==
    /\ Done(c)
    /\ calls[c].request.approval_token_id = t
    /\ ConsumedBefore(t, calls[c])

\* C1, as amended: a token is consumed by at most one execute call, and every
\* execute call that cites it after that one, for the plan the token is
\* bound to, is rejected with 403 "Approval token already used".
C1_TokenOneShot ==
    \A t \in DOMAIN approval_tokens :
        /\ Cardinality(Consumers(t)) <= 1
        /\ \A c \in Calls :
               (CitesConsumed(c, t) /\ calls[c].plan.plan_id = approval_tokens[t].plan_id)
                   => calls[c].response = AlreadyUsed

\* C1, as stated: a token is consumed by at most one execute call, and every
\* execute call that cites it after that one is rejected with 403 "Approval
\* token already used", whatever plan the call executes.
C1_Original ==
    \A t \in DOMAIN approval_tokens :
        /\ Cardinality(Consumers(t)) <= 1
        /\ \A c \in Calls : CitesConsumed(c, t) => calls[c].response = AlreadyUsed

C1_Witness ==
    \E t \in DOMAIN approval_tokens, c \in Calls :
        /\ CitesConsumed(c, t)
        /\ calls[c].plan.plan_id = approval_tokens[t].plan_id
        /\ calls[c].response = AlreadyUsed

\* Two calls that cite the token t, unconsumed when each of them came in and
\* unexpired since, for the plan it is bound to, both past the point where
\* execute deals with the token.
Contend(c, d, t) ==
    /\ c # d
    /\ calls[c].request.approval_token_id = t
    /\ calls[d].request.approval_token_id = t
    /\ calls[c].fresh /\ calls[d].fresh
    /\ calls[c].plan.plan_id = approval_tokens[t].plan_id
    /\ calls[d].plan.plan_id = approval_tokens[t].plan_id
    /\ now < fromisoformat(approval_tokens[t].expires_at)
    /\ calls[c].pc \notin {"idle", "consume", "mark"}
    /\ calls[d].pc \notin {"idle", "consume", "mark"}

\* One call consumed t; of c and d at most one did, the other was answered
\* "already used", and both were only if a third call was the one.
OneWinner(c, d, t) ==
    LET winners == { x \in {c, d} : calls[x].token = t }
    IN  /\ Cardinality(Consumers(t)) = 1
        /\ Cardinality(winners) <= 1
        /\ \A x \in {c, d} \ winners :
               calls[x].token = None /\ calls[x].response = AlreadyUsed
        /\ winners = {} =>
               \E i \in Consumers(t) :
                   consumptions[i][2] \notin { calls[c].trace.task_id, calls[d].trace.task_id }

\* C2, as amended: when two execute calls citing the same unconsumed,
\* unexpired token and the matching plan run concurrently, and that plan is
\* one execute asks a token for (requires_approval, or a step with side
\* effects) and lets through its dry-run gate, exactly one of them consumes
\* the token and the other fails with "already used".
C2_ConcurrentConsume ==
    \A t \in DOMAIN approval_tokens : \A c \in Calls, d \in Calls :
        ( /\ Contend(c, d, t)
          /\ calls[c].plan.requires_approval \/ SideEffects(calls[c].plan) # {}
          /\ ~ (calls[c].plan.dry_run /\ SideEffects(calls[c].plan) # {}) )
            => OneWinner(c, d, t)

\* C2, as stated: when two execute calls citing the same unconsumed,
\* unexpired token and the matching plan run concurrently, exactly one
\* consumes the token and the other fails with "already used".
C2_Original ==
    \A t \in DOMAIN approval_tokens : \A c \in Calls, d \in Calls :
        Contend(c, d, t) => OneWinner(c, d, t)

C2_Witness ==
    \E t \in DOMAIN approval_tokens : \E c \in Calls, d \in Calls :
        /\ Contend(c, d, t)
        /\ calls[c].plan.requires_approval
        /\ calls[c].token = t
        /\ calls[d].response = AlreadyUsed

\* C3: no file.search or file.read_text step is dispatched to the file
\* agent by an execute call that did not first consume a token bound to the
\* plan it executes, whatever plan the client submitted.
C3_FileOpsNeedToken ==
    \A c \in Calls : \A i \in DOMAIN calls[c].ran :
        calls[c].ran[i].op \in {"file_search", "file_read_text"} =>
            /\ calls[c].token # None
            /\ approval_tokens[calls[c].token].plan_id = calls[c].plan.plan_id
            /\ approval_tokens[calls[c].token].consumed_at # NoTime

ShellSteps(plan) == { i \in DOMAIN plan.steps : plan.steps[i].action = "shell.exec" }

\* The deny-list, the allow-list and the command are reached only by a call
\* that consumed a token bound to its plan.
ShellOpsNeedToken ==
    \A c \in Calls : \A i \in DOMAIN calls[c].ran :
        calls[c].ran[i].op \in {"deny_list", "allow_list", "command"} =>
            /\ calls[c].token # None
            /\ approval_tokens[calls[c].token].plan_id = calls[c].plan.plan_id
            /\ approval_tokens[calls[c].token].consumed_at # NoTime

\* An answered execute, sent without a token, of a plan with a shell.exec step.
NoTokenShell(c) ==
    /\ Done(c)
    /\ calls[c].request.approval_token_id = None
    /\ ShellSteps(calls[c].plan) # {}

\* A shell.exec step that declares another side effect than exec has no
\* part of the shell agent's work done for it, and ends its call with 403.
UndeclaredExecRejected ==
    \A c \in Calls :
        LET call == calls[c]
            undeclared == { i \in ShellSteps(call.plan) :
                              call.plan.steps[i].side_effects # "exec" }
        IN  /\ \A i \in DOMAIN call.ran : call.ran[i].step \notin undeclared
            /\ (Done(c) /\ call.i \in undeclared) =>
                   call.response.code = 403 /\ "command" \notin Ops(call)

\* C4, as amended: no shell.exec step reaches the deny-list, the allow-list
\* or the command unless its call consumed a token bound to the plan; an
\* execute without a token of a plan that contains a shell.exec step runs no
\* command and returns 403, unless a step before the first shell.exec step
\* ended the call with an error of its own; and a shell.exec step that
\* declares side_effects other than exec is rejected with 403 before any
\* command runs.
C4_ShellGated ==
    /\ ShellOpsNeedToken
    /\ \A c \in Calls :
           NoTokenShell(c) =>
               /\ "command" \notin Ops(calls[c])
               /\ \/ calls[c].response.code = 403
                  \/ /\ \A i \in ShellSteps(calls[c].plan) : calls[c].i < i
                     /\ calls[c].trace.status = "failed"
    /\ UndeclaredExecRejected

\* C4, as stated: the same, with 403 the answer to every execute without a
\* token of a plan that contains a shell.exec step.
C4_Original ==
    /\ ShellOpsNeedToken
    /\ \A c \in Calls : NoTokenShell(c) => calls[c].response.code = 403
    /\ UndeclaredExecRejected

\* After a shell plan ran with its token, an execute without a token of a
\* plan whose shell.exec step declares no side effect reaches that step.
C4_Witness ==
    \E c \in Calls :
        /\ NoTokenShell(c)
        /\ "conversation" \in Ops(calls[c])
        /\ calls[c].response =
               HTTPException(403, "shell.exec step must declare side_effects=exec")
        /\ \E id \in DOMAIN task_files :
               task_files[id].agent = "shell" /\ task_files[id].status = "completed"

\* An answered execute that cited a token issued for another plan.
Mismatch(c) ==
    /\ Done(c)
    /\ calls[c].request.approval_token_id \in DOMAIN approval_tokens
    /\ approval_tokens[calls[c].request.approval_token_id].plan_id # calls[c].plan.plan_id

\* C5, as amended: for every token, and every plan execute asks a token for
\* (requires_approval, or a step with side effects), an execute call that
\* cites a token whose plan_id differs from the id of the plan executed
\* returns 403, and consumes no token and dispatches no step.
C5_TokenBinding ==
    \A c \in Calls :
        (Mismatch(c) /\ (calls[c].plan.requires_approval \/ SideEffects(calls[c].plan) # {}))
            => /\ calls[c].response.code = 403
               /\ calls[c].token = None
               /\ calls[c].ran = << >>

\* C5, as stated: for every plan and every token, an execute call that cites
\* a token whose plan_id differs from the id of the plan executed returns 403.
C5_Original ==
    \A c \in Calls : Mismatch(c) => calls[c].response.code = 403

C5_Witness ==
    \E c \in Calls :
        /\ Mismatch(c)
        /\ calls[c].plan.requires_approval
        /\ calls[c].response = HTTPException(403, "Approval token does not match plan")

\* C6: an execute of a plan with dry_run = true and a step with side effects
\* returns 403 at once, whatever token it cites; no step is dispatched, no
\* token consumed, and neither a trace file nor an index entry is written.
C6_DryRunSafety ==
    \A c \in Calls :
        (Active(c) /\ calls[c].plan.dry_run /\ SideEffects(calls[c].plan) # {}) =>
            /\ Done(c)
            /\ calls[c].response = DryRunRejection
            /\ calls[c].ran = << >>
            /\ calls[c].token = None
            /\ calls[c].trace.task_id \notin DOMAIN task_files
            /\ \A i \in DOMAIN task_index : task_index[i].task_id # calls[c].trace.task_id
            /\ \A i \in DOMAIN consumptions : consumptions[i][2] # calls[c].trace.task_id

\* The execute cited a token that was valid: bound to the plan, unconsumed
\* and unexpired.
C6_Witness ==
    \E c \in Calls, t \in DOMAIN approval_tokens :
        /\ Done(c)
        /\ calls[c].plan.dry_run /\ SideEffects(calls[c].plan) # {}
        /\ calls[c].request.approval_token_id = t
        /\ approval_tokens[t].plan_id = calls[c].plan.plan_id
        /\ approval_tokens[t].consumed_at = NoTime
        /\ now < fromisoformat(approval_tokens[t].expires_at)
        /\ calls[c].response = DryRunRejection

\* The operations of the agents that a step with this action can reach.
OpsOf(action) ==
    CASE action = "file.search" -> {"file_search"}
      [] action = "file.read_text" -> {"file_read_text"}
      [] action = "conversation.respond" -> {"conversation"}
      [] action = "shell.exec" -> {"exec_scope", "deny_list", "allow_list", "command"}
      [] OTHER -> {}

\* C7: when the request's plan_id is in the stored-plan map, the steps,
\* required_permissions, requires_approval and dry_run execute uses are those
\* of the stored plan, so are the gates (dry-run, token) it applies and the
\* steps it dispatches, and two requests with that plan_id work on the same
\* plan whatever their bodies.
C7_StoredPlanUsed ==
    \A c \in Calls :
        (Active(c) /\ calls[c].request.plan.plan_id \in DOMAIN stored_plans) =>
            LET call == calls[c]
                stored == stored_plans[call.request.plan.plan_id]
            IN  /\ call.plan.steps = stored.steps
                /\ call.plan.required_permissions = stored.required_permissions
                /\ call.plan.requires_approval = stored.requires_approval
                /\ call.plan.dry_run = stored.dry_run
                /\ \A i \in DOMAIN call.ran :
                       /\ call.ran[i].step \in DOMAIN stored.steps
                       /\ call.ran[i].op \in OpsOf(stored.steps[call.ran[i].step].action)
                /\ (stored.dry_run /\ SideEffects(stored) # {}) =>
                       call.response = DryRunRejection
                /\ ((stored.requires_approval \/ SideEffects(stored) # {})
                        /\ call.pc \notin {"consume", "mark", "done"}) => call.token # None
                /\ \A d \in Calls :
                       (Active(d) /\ calls[d].request.plan.plan_id = call.request.plan.plan_id)
                           => calls[d].plan = call.plan

\* Two requests with the id of a stored plan and different bodies, both
\* past the token gate of the stored plan, dispatched the same step.
C7_Witness ==
    \E c \in Calls, d \in Calls :
        /\ calls[c].request.plan.plan_id \in DOMAIN stored_plans
        /\ calls[d].request.plan.plan_id = calls[c].request.plan.plan_id
        /\ calls[c].request.plan # calls[d].request.plan
        /\ calls[c].token # None /\ calls[d].token # None
        /\ calls[c].ran # << >>
        /\ Ops(calls[c]) = Ops(calls[d])

\* The folders and the read targets a resolved path lies in, and the
\* blocked roots it lies under.
InFolders(path, config) ==
    \E folder \in config.allowed_folders : IsPrefix(resolve(folder), resolve(path))

InReadTargets(path, plan) ==
    \E i \in DOMAIN plan.required_permissions :
        /\ plan.required_permissions[i].type = "file"
        /\ plan.required_permissions[i].mode = "read"
        /\ \E j \in DOMAIN plan.required_permissions[i].targets :
               IsPrefix(resolve(plan.required_permissions[i].targets[j]), resolve(path))

UnderBlockedRoot(path) ==
    \E blocked \in get_blocked_paths : IsPrefix(blocked, resolve(path))

ScopeAccepts(path, plan, config) ==
    /\ ~ UnderBlockedRoot(path)
    /\ InFolders(path, config)
    /\ InReadTargets(path, plan)

ScopeDetails ==
    { "Blocked path", "No folders are allowed yet",
      "Path is outside configured allowed folders",
      "No allowed file read roots configured", "Path is outside allowed read scope" }

\* An answered execute of a one-step plan whose step was handed to its
\* agent, and the path the agent checks the scope of.
Checked(c) ==
    /\ Done(c)
    /\ Len(calls[c].plan.steps) = 1
    /\ calls[c].ran # << >>
    /\ calls[c].ran[1].op \in {"file_search", "file_read_text", "exec_scope"}

Target(step) ==
    CASE step.action = "file.search" -> step.inputs.root
      [] step.action = "file.read_text" -> step.inputs.path
      [] OTHER -> step.inputs.cwd

\* C8: the scope check accepts a resolved path if and only if it lies under
\* no blocked root, inside a configured allowed folder and inside a
\* file/read target of the plan; a path it does not accept ends the
\* operation with 403, nothing read and no command run.
C8_ScopeIff ==
    \A c \in Calls :
        (Checked(c) /\ calls[c].ran[1].op \in {"file_read_text", "exec_scope"}) =>
            LET call == calls[c]
                step == call.plan.steps[1]
                path == Target(step)
            IN  IF ScopeAccepts(path, call.plan, call.ran[1].config)
                THEN /\ call.response.detail \notin ScopeDetails
                     /\ step.action = "shell.exec" =>
                            "command" \in Ops(call) /\ call.response = Ok
                     /\ (step.action = "file.read_text" /\ is_file(path)) =>
                            /\ call.response = Ok
                            /\ "file read completed" \in Messages(call)
                ELSE /\ call.response.code = 403
                     /\ call.response.detail \in ScopeDetails
                     /\ "file read completed" \notin Messages(call)
                     /\ Ops(call) \cap {"deny_list", "allow_list", "command"} = {}

\* A read through a symbolic link, accepted for the place the link leads to.
C8_Witness ==
    \E c \in Calls :
        /\ Checked(c)
        /\ calls[c].ran[1].op = "file_read_text"
        /\ ScopeAccepts(Target(calls[c].plan.steps[1]), calls[c].plan, calls[c].ran[1].config)
        /\ Target(calls[c].plan.steps[1]) = <<"linked", "link.txt">>
        /\ calls[c].response = Ok

\* Every file a search of root would look into lies inside the scope.
SearchInScope(root, plan, config) ==
    \A i \in DOMAIN Tree :
        IsPrefix(resolve(root), Tree[i]) => ScopeAccepts(Tree[i], plan, config)

\* C9: the scope of a file operation is decided on the configuration in
\* force when the check runs: with allowed_folders empty then, execute is
\* denied with 403; with the plan's root in allowed_folders then (a reload
\* having put it there), execute of the same plan, with a token of its own,
\* completes.
C9_LiveConfig ==
    \A c \in Calls :
        (Checked(c) /\ calls[c].ran[1].op \in {"file_search", "file_read_text"}) =>
            LET call == calls[c]
                step == call.plan.steps[1]
                config == call.ran[1].config
            IN  /\ config.allowed_folders = {} => call.response.code = 403
                /\ ( /\ ScopeAccepts(Target(step), call.plan, config)
                     /\ step.action = "file.read_text" => is_file(Target(step))
                     /\ step.action = "file.search" =>
                            /\ is_dir(Target(step))
                            /\ SearchInScope(Target(step), call.plan, config) )
                       => /\ call.response = Ok
                          /\ call.trace.status = "completed"

\* The plan was denied once, and completes now with another token.
C9_Witness ==
    \E c \in Calls :
        /\ Checked(c)
        /\ calls[c].ran[1].op = "file_search"
        /\ calls[c].response = Ok
        /\ calls[c].token # None
        /\ \E id \in DOMAIN task_files :
               /\ id < calls[c].trace.task_id
               /\ task_files[id].plan_id = calls[c].plan.plan_id
               /\ task_files[id].status = "failed"
               /\ \E i \in DOMAIN consumptions :
                      consumptions[i][2] = id /\ consumptions[i][1] # calls[c].token

\* The entries of the allow-list: pwd; ls with 0 or 1 argument; cat with 1;
\* grep with 2 arguments, or 2 and --recursive; find with 1 or 2; the seven
\* external command lines.
AllowListed(argv) ==
    /\ argv # << >>
    /\ \/ argv = <<"pwd">>
       \/ argv[1] = "ls" /\ Len(argv) - 1 \in {0, 1}
       \/ argv[1] = "cat" /\ Len(argv) - 1 = 1
       \/ argv[1] = "grep" /\ Len(argv) - 1 = 2
       \/ argv[1] = "grep" /\ Len(argv) - 1 = 3 /\ argv[4] = "--recursive"
       \/ argv[1] = "find" /\ Len(argv) - 1 \in {1, 2}
       \/ argv \in { <<"git", "status">>, <<"git", "diff">>, <<"git", "log">>,
                     <<"python", "--version">>, <<"python", "-m", "pip", "--version">>,
                     <<"node", "--version">>, <<"npm", "--version">> }

\* An execute, of a plan whose one step is a shell.exec step that declares
\* exec, of a command line the allow-list does not hold.
Unlisted(c) ==
    /\ Active(c)
    /\ Len(calls[c].plan.steps) = 1
    /\ calls[c].plan.steps[1].action = "shell.exec"
    /\ calls[c].plan.steps[1].side_effects = "exec"
    /\ calls[c].plan.steps[1].inputs.command.kind \in {"str", "list"}
    /\ ~ calls[c].plan.steps[1].inputs.command.open_quote
    /\ ~ AllowListed(calls[c].plan.steps[1].inputs.command.words)

\* C10, as amended: for every argv that does not exactly match an allow-list
\* entry, an execute of a shell.exec step with that argv runs no command, and
\* returns 403 when the argv is not empty and timeout_ms and
\* max_output_chars convert to integers; an empty argv is answered 400
\* unless a gate before it answered 403.
C10_AllowListClosure ==
    \A c \in Calls :
        Unlisted(c) =>
            LET call == calls[c]
                inputs == call.plan.steps[1].inputs
            IN  /\ "command" \notin Ops(call)
                /\ call.i = 1
                /\ Done(c) =>
                       \/ call.response.code = 403
                       \/ inputs.command.words = << >> /\ call.response.code = 400
                       \/ /\ ~ int_ok(inputs.timeout_ms) \/ ~ int_ok(inputs.max_output_chars)
                          /\ call.response = Ok
                          /\ call.trace.status = "failed"

\* C10, as stated: for every argv that does not exactly match an allow-list
\* entry, an execute of a shell.exec step with that argv returns 403, and no
\* command is run.
C10_Original ==
    \A c \in Calls :
        Unlisted(c) =>
            /\ "command" \notin Ops(calls[c])
            /\ Done(c) => calls[c].response.code = 403

\* A command line that matches no entry came to the allow-list, which
\* rejected it.
C10_Witness ==
    \E c \in Calls :
        /\ Unlisted(c)
        /\ Done(c)
        /\ calls[c].ran # << >>
        /\ calls[c].ran[Len(calls[c].ran)].op = "allow_list"
        /\ calls[c].response.code = 403
        /\ calls[c].plan.steps[1].inputs.command.words[1] = "grep"

\* A call has ended, with an answer or on its way to persist its trace.
Ended(call) == call.pc \in {"persist", "index", "done"}

\* The agent operations the call ran for its step i.
StepOps(call, i) == { call.ran[k].op : k \in { j \in DOMAIN call.ran : call.ran[j].step = i } }

\* The space-joined argv of the shell.exec step holds a shell operator.
OperatorStep(step) ==
    /\ step.action = "shell.exec"
    /\ step.inputs.command.kind \in {"str", "list"}
    /\ ~ step.inputs.command.open_quote
    /\ \E w \in DOMAIN step.inputs.command.words :
           \E k \in DOMAIN Chars(step.inputs.command.words[w]) :
               Chars(step.inputs.command.words[w])[k] \in {";", "&&", "||", "|", ">", ">>", "<"}

\* C11: a shell.exec step whose space-joined argv holds one of ; && || | > >>
\* < is rejected with 403 before the scope check of its cwd, the deny-list,
\* the allow-list and the command: none of them runs for the step, the call
\* never goes past the step, and a call that reached it ends there with 403.
C11_OperatorRejected ==
    \A c \in Calls : \A i \in DOMAIN calls[c].plan.steps :
        OperatorStep(calls[c].plan.steps[i]) =>
            /\ StepOps(calls[c], i) = {}
            /\ calls[c].i <= i
            /\ (calls[c].i = i /\ calls[c].pc \in {"persist", "index"}) =>
                   /\ calls[c].exc.code = 403
                   /\ calls[c].trace.status = "failed"
            /\ (calls[c].i = i /\ Done(c)) => calls[c].response.code = 403

\* With the shell enabled, the operators are what stops a second step whose
\* cwd is out of scope, whose argv holds a denied word and whose timeout_ms
\* is no integer.
C11_Witness ==
    \E c \in Calls :
        /\ Done(c)
        /\ calls[c].i = 2
        /\ OperatorStep(calls[c].plan.steps[2])
        /\ calls[c].plan.steps[2].inputs.cwd = <<"outside">>
        /\ "conversation" \in StepOps(calls[c], 1)
        /\ calls[c].response = HTTPException(403, "Command contains forbidden shell operators")

\* Call c is answered in this step, with the shell disabled in the live
\* config, on a plan that holds a shell.exec step.  (The config is reloaded
\* between the requests of the client, never during one.)
AnsweredShellDisabled(c) ==
    /\ ~ current_config.shell.enabled
    /\ calls'[c] # calls[c]
    /\ calls'[c].pc = "done"
    /\ ShellSteps(calls'[c].plan) # {}

\* C12, as amended: while the live config has shell.enabled = false, every
\* execute of a plan that contains a shell.exec step runs no internal or
\* external command, whatever the command, cwd and token, and returns 403
\* unless a step before the first shell.exec step ended the call with an
\* error of its own.
C12_ShellDisabled ==
    [][ \A c \in Calls :
          AnsweredShellDisabled(c) =>
              /\ "command" \notin Ops(calls'[c])
              /\ \/ calls'[c].response.code = 403
                 \/ /\ \A i \in ShellSteps(calls'[c].plan) : calls'[c].i < i
                    /\ calls'[c].trace.status = "failed" ]_vars

\* C12, as stated: while the live config has shell.enabled = false, every
\* execute of a plan that contains a shell.exec step returns 403 and runs no
\* internal or external command.
C12_Original ==
    [][ \A c \in Calls :
          AnsweredShellDisabled(c) =>
              /\ "command" \notin Ops(calls'[c])
              /\ calls'[c].response.code = 403 ]_vars

\* The switch is what stopped a shell plan executed with its token.
C12_Witness ==
    \E c \in Calls :
        /\ Done(c)
        /\ calls[c].token # None
        /\ calls[c].plan.steps[1].action = "shell.exec"
        /\ calls[c].response = HTTPException(403, "Shell is disabled in config")

\* The events of the trace that belong to step i of the plan.
StepEvents(call, i) ==
    { k \in DOMAIN call.trace.events :
        call.trace.events[k].step_id = call.plan.steps[i].step_id }

\* The last event of the trace tells of a command that timed out, exit
\* code 124.
TimedOutResult(call) ==
    /\ call.trace.events # << >>
    /\ LET last == call.trace.events[Len(call.trace.events)]
       IN  /\ last.message \in {"shell command completed", "shell output truncated"}
           /\ \E k \in DOMAIN call.trace.events :
                  /\ call.trace.events[k].message = "shell command completed"
                  /\ call.trace.events[k].step_id = call.plan.steps[call.i].step_id
                  /\ call.trace.events[k].details.timed_out
                  /\ call.trace.events[k].details.exit_code = 124
                  /\ \A j \in (k + 1)..Len(call.trace.events) :
                         call.trace.events[j].message = "shell output truncated"

\* A trace with status timeout belongs to a call that stopped at the step
\* that timed out: nothing ran and no event was appended for a later step,
\* and the trace is the one on disk and the one returned, with HTTP 200.
TimeoutEndsTask ==
    \A c \in Calls :
        (Ended(calls[c]) /\ calls[c].trace.status = "timeout") =>
            LET call == calls[c]
            IN  /\ call.i \in DOMAIN call.plan.steps
                /\ TimedOutResult(call)
                /\ \A j \in DOMAIN call.plan.steps :
                       j > call.i => StepOps(call, j) = {} /\ StepEvents(call, j) = {}
                /\ Done(c) =>
                       /\ call.response = Ok
                       /\ call.trace.task_id \in DOMAIN task_files
                       /\ task_files[call.trace.task_id] = call.trace
                       /\ \E k \in DOMAIN task_index :
                              /\ task_index[k].task_id = call.trace.task_id
                              /\ task_index[k].status = "timeout"

\* The command of call c runs in this step.
CommandRuns(c, slow, outcome, out_len) ==
    /\ ExecuteShell(c, slow, outcome, out_len)
    /\ "command" \in StepOps(calls'[c], calls[c].i)

\* The command exceeds its timeout: an internal command that is slow, a
\* subprocess that subprocess.run gave up waiting for.
Exceeds(c, slow, outcome) ==
    \/ enforce_shell_allowlist(calls[c].shell.argv).mode = "internal" /\ slow
    \/ enforce_shell_allowlist(calls[c].shell.argv).mode = "external"
          /\ outcome = "TimeoutExpired"

\* The overrun is seen: by an elapsed-time check of the internal command,
\* which raises TimeoutError, or by subprocess.run.
OverrunSeen(c, slow, outcome) ==
    \/ /\ enforce_shell_allowlist(calls[c].shell.argv).mode = "internal"
       /\ execute_internal_shell(calls[c].shell.argv, calls[c].shell.cwd, calls[c].plan,
                                 current_config, slow).exc = TimeoutError
    \/ /\ enforce_shell_allowlist(calls[c].shell.argv).mode = "external"
       /\ outcome = "TimeoutExpired"

TimeoutTaken(c) ==
    /\ calls'[c].pc = "persist"
    /\ calls'[c].trace.status = "timeout"
    /\ calls'[c].trace.ended_at # NoTime
    /\ TimedOutResult(calls'[c])

\* C13, as amended: whenever a subprocess exceeds its timeout, or an
\* internal command is found past its timeout by one of its elapsed-time
\* checks, the step result has timed_out = true and exit_code = 124, the
\* trace status becomes timeout, the trace is persisted and returned with
\* HTTP 200, and no step after the timed-out one is executed.
C13_TimeoutExit ==
    /\ [] TimeoutEndsTask
    /\ [][ \A c \in Calls, slow \in BOOLEAN, outcome \in ExternalOutcomes, out_len \in OutLens :
             ( /\ calls[c].pc = "shell_policy"
               /\ OverrunSeen(c, slow, outcome)
               /\ CommandRuns(c, slow, outcome, out_len) ) => TimeoutTaken(c) ]_vars

\* C13, as stated: the same of every shell.exec step, internal command or
\* subprocess, that exceeds its timeout.
C13_Original ==
    /\ [] TimeoutEndsTask
    /\ [][ \A c \in Calls, slow \in BOOLEAN, outcome \in ExternalOutcomes, out_len \in OutLens :
             ( /\ calls[c].pc = "shell_policy"
               /\ Exceeds(c, slow, outcome)
               /\ CommandRuns(c, slow, outcome, out_len) ) => TimeoutTaken(c) ]_vars

\* An ls that timed out as the first of two steps: the trace was returned
\* with status timeout, and the second step never started.
C13_Witness ==
    \E c \in Calls :
        /\ Done(c)
        /\ calls[c].trace.status = "timeout"
        /\ calls[c].i = 1
        /\ calls[c].shell.argv = <<"ls">>
        /\ calls[c].plan.steps[2].action = "conversation.respond"
        /\ calls[c].response = Ok

(***************************************************************************)
(* Persistence of the trace.                                               *)
(***************************************************************************)
\* The call was answered 200, with its trace.
ReturnedTrace(c) ==
    /\ Done(c)
    /\ calls[c].response = Ok
    /\ calls[c].trace.task_id # None

\* The summaries the index holds for a task.
Summaries(task_id) == { k \in DOMAIN task_index : task_index[k].task_id = task_id }

Denied(c) ==
    /\ Done(c)
    /\ calls[c].response.code = 403
    /\ calls[c].response # DryRunRejection

\* The trace of the call is on disk, failed for an HTTP exception.
FailedTracePersisted(c) ==
    /\ calls[c].trace.task_id \in DOMAIN task_files
    /\ task_files[calls[c].trace.task_id].status = "failed"
    /\ task_files[calls[c].trace.task_id].error = "HTTP exception during execution"

\* C16: whenever an execute call is denied on a precondition (a scope
\* denial, a shell policy denial, or a token denial: missing, not found,
\* mismatched, already used, expired), a trace with status failed and error
\* "HTTP exception during execution" is persisted for that call and the call
\* is answered 403.
C16_DeniedPersisted ==
    \A c \in Calls : Denied(c) => FailedTracePersisted(c)

\* The events of a trace that record what step j of the plan produced.
StepResults(plan, trace, j) ==
    { k \in DOMAIN trace.events :
        /\ trace.events[k].step_id = plan.steps[j].step_id
        /\ trace.events[k].message # "Executing" }

\* C17: when an execute call ends with a policy violation (403) on a step
\* of a multi-step plan, no step of that plan has been executed by that
\* call: no earlier step's agent action ran and no earlier step's result is
\* recorded in a persisted trace.
C17_NoPartialExecution ==
    \A c \in Calls :
        ( /\ Done(c)
          /\ calls[c].response.code = 403
          /\ Len(calls[c].plan.steps) > 1
          /\ calls[c].i \in DOMAIN calls[c].plan.steps ) =>
            \A j \in 1..(calls[c].i - 1) :
                /\ StepOps(calls[c], j) = {}
                /\ calls[c].trace.task_id \in DOMAIN task_files =>
                       StepResults(calls[c].plan, task_files[calls[c].trace.task_id], j) = {}

\* The loop reached step j of the plan: its "Executing" event is in the trace.
Dispatched(call, j) == StepEvents(call, j) # {}

\* Step j ran to its end: the trace holds the event that closes it, and
\* for a shell.exec step the command did not time out.
StepSucceeded(call, j) ==
    \E k \in StepEvents(call, j) :
        /\ call.trace.events[k].message \in
               {"search completed", "file read completed",
                "Conversation response generated", "shell command completed"}
        /\ call.trace.events[k].message = "shell command completed" =>
               ~ call.trace.events[k].details.timed_out

\* C18: in a multi-step plan, once a step fails (raises a policy or HTTP
\* error, raises a runtime error, or times out), no later step is dispatched
\* and no "Executing" event for a later step is ever appended; the trace
\* ends with status failed or timeout, never completed.
C18_FailureHalts ==
    \A c \in Calls : \A j \in DOMAIN calls[c].plan.steps :
        /\ \A l \in DOMAIN calls[c].plan.steps :
               (l > j /\ (Dispatched(calls[c], l) \/ StepOps(calls[c], l) # {})) =>
                   StepSucceeded(calls[c], j)
        /\ (Ended(calls[c]) /\ Dispatched(calls[c], j) /\ ~ StepSucceeded(calls[c], j)) =>
               /\ calls[c].trace.status \in {"failed", "timeout"}
               /\ calls[c].i = j
        /\ calls[c].trace.status = "completed" => StepSucceeded(calls[c], j)

\* The first step of a two-step plan was denied with 403, and the call was
\* answered; the trace on disk is failed and has no event of the second step.
C18_Witness ==
    \E c \in Calls :
        /\ Done(c)
        /\ Len(calls[c].plan.steps) = 2
        /\ calls[c].response.code = 403
        /\ Dispatched(calls[c], 1)
        /\ FailedTracePersisted(c)
        /\ calls[c].plan.steps[2].action = "conversation.respond"

\* The call dispatched a step whose inputs make int() raise a ValueError: a
\* max_results or a timeout_ms that is not a number.  For a shell.exec step
\* the conversion is reached when the step declares exec, the shell is
\* enabled, and the command parses to an argv with no shell operator.
RaisesValueError(call, config) ==
    /\ call.i \in DOMAIN call.plan.steps
    /\ Dispatched(call, call.i)
    /\ LET step == call.plan.steps[call.i]
       IN  \/ /\ step.action = "file.search"
              /\ step.inputs.max_results = JStr
           \/ /\ step.action = "shell.exec"
              /\ step.side_effects = "exec"
              /\ config.shell.enabled
              /\ step.inputs.command.kind \in {"str", "list"}
              /\ ~ step.inputs.command.open_quote
              /\ step.inputs.command.words # << >>
              /\ ~ OperatorStep(step)
              /\ step.inputs.timeout_ms = JStr

\* C19: a runtime error that is not an HTTPException, raised inside the
\* execution of a step, yields an HTTP 200 response carrying a trace with
\* status failed, error equal to the error message, ended_at set, and a
\* final error-level event "Execution failed"; that trace is persisted.
C19_RuntimeError ==
    \A c \in Calls :
        (Ended(calls[c]) /\ RaisesValueError(calls[c], current_config)) =>
            LET trace == calls[c].trace
            IN  /\ trace.status = "failed"
                /\ trace.error = "invalid literal for int()"
                /\ trace.ended_at # NoTime
                /\ trace.events # << >>
                /\ trace.events[Len(trace.events)].level = "error"
                /\ trace.events[Len(trace.events)].message = "Execution failed"
                /\ Done(c) =>
                       /\ calls[c].response = Ok
                       /\ trace.task_id \in DOMAIN task_files
                       /\ task_files[trace.task_id] = trace

\* The second step of a plan, a shell.exec step with a timeout_ms that is
\* not a number, raised after the first step ran, and the call was answered.
C19_Witness ==
    \E c \in Calls :
        /\ Done(c)
        /\ RaisesValueError(calls[c], current_config)
        /\ calls[c].i = 2
        /\ calls[c].plan.steps[2].action = "shell.exec"
        /\ StepSucceeded(calls[c], 1)
        /\ Len(task_index) = 2

(***************************************************************************)
(* Transport auth.                                                         *)
(***************************************************************************)
\* The header carries the bearer scheme and the exact API token.
ValidBearer(authorization) ==
    /\ authorization.present
    /\ Len(authorization.words) = 2
    /\ authorization.words[1] \in {"Bearer", "bearer", "BEARER"}
    /\ authorization.words[2] = API_TOKEN

\* Worker c is the one that takes the next request.
Takes(c) ==
    /\ calls[c].pc \in {"idle", "done"}
    /\ \A d \in Calls : d < c => calls[d].pc \notin {"idle", "done"}

\* In this step worker c answers 401 and nothing else changes.
Answers401(c) ==
    /\ calls'[c].pc = "done"
    /\ calls'[c].response.code = 401
    /\ calls'[c].ran = << >>
    /\ UNCHANGED << stored_plans, approval_tokens, approval_lock, current_config,
                    current_models, tasks, task_files, task_index, consumptions >>

\* C14: every request to a /v1 route without an Authorization header that
\* carries the bearer scheme and the exact API token is answered 401 and
\* changes no state: no plan is stored, no token is issued or consumed, no
\* trace is written, no config or model state changes.  (A step that is not
\* such an answer is the step of no such request.)
C14_AuthUniversal ==
    [][ \A c \in Calls :
            (Takes(c) /\ ~ Answers401(c)) =>
                \A authorization \in Headers, route \in Routes :
                    ~ ValidBearer(authorization) => ~ Request(c, route, authorization) ]_vars

\* A request was answered 401 by a server that holds an unconsumed token,
\* a trace on disk, a loaded config and a registered model.
C14_Witness ==
    \E c \in Calls :
        /\ Done(c)
        /\ calls[c].response.code = 401
        /\ \E t \in DOMAIN approval_tokens : approval_tokens[t].consumed_at = NoTime
        /\ task_index # << >>
        /\ current_config # DefaultConfig
        /\ current_models.installed_models # << >>

(***************************************************************************)
(* Router.                                                                 *)
(***************************************************************************)
\* The plans the router emitted.
RouterPlans == { stored_plans[id] : id \in { k \in DOMAIN stored_plans : k >= RouterPlanId(1) } }

\* C20: every plan the router emits with router_confidence < 0.70 has
\* exactly one step, that step is conversation.respond with side_effects
\* none, router_fallback_used is true, required_permissions is empty,
\* requires_approval is false and estimated_risk is low; conversely every
\* router plan with router_fallback_used = true has router_confidence < 0.70.
C20_Fallback ==
    \A plan \in RouterPlans :
        /\ plan.router_confidence < ROUTER_CONFIDENCE_THRESHOLD =>
               /\ Len(plan.steps) = 1
               /\ plan.steps[1].action = "conversation.respond"
               /\ plan.steps[1].side_effects = "none"
               /\ plan.router_fallback_used
               /\ plan.required_permissions = << >>
               /\ ~ plan.requires_approval
               /\ plan.estimated_risk = "low"
        /\ plan.router_fallback_used =>
               plan.router_confidence < ROUTER_CONFIDENCE_THRESHOLD

\* The router emitted a fallback plan, and a call executed it to its end.
C20_Witness ==
    \E plan \in RouterPlans :
        /\ plan.router_confidence < ROUTER_CONFIDENCE_THRESHOLD
        /\ plan.router_fallback_used
        /\ \E c \in Calls :
               /\ ReturnedTrace(c)
               /\ calls[c].plan = plan
               /\ calls[c].trace.status = "completed"

\* The prompt holds a search verb and a file-scope word; it holds a shell
\* indicator.
FileSearchChosen(prompt) == prompt.has_search_verb /\ prompt.has_file_scope
ShellChosen(prompt) == prompt.has_indicator

\* The root a request names: allowed_folders[0], or the working directory.
SearchRoot(request) ==
    IF request.allowed_folders # << >> THEN request.allowed_folders[1] ELSE Cwd

\* In this step the router answers the request; Emitted is the plan it
\* emits and stores.
Emits(request) == stored_plans' # stored_plans /\ post_router_plan(request)
Emitted == stored_plans'[RouterPlanId(RouterPlanCount + 1)]

\* C21: a prompt that holds a shell indicator (so has shell confidence
\* >= 0.80) and does not trigger file search is routed to a plan with a
\* single shell.exec step, permissions file/read over the root and
\* shell/exec over the command, dry_run = false and risk medium.
C21_ShellRouted ==
    [][ \A request \in RequestSpace :
            ( /\ ShellChosen(request.prompt)
              /\ ~ FileSearchChosen(request.prompt)
              /\ Emits(request) ) =>
                /\ Len(Emitted.steps) = 1
                /\ Emitted.steps[1].action = "shell.exec"
                /\ Len(Emitted.required_permissions) = 2
                /\ Emitted.required_permissions[1] =
                       PermissionScope("file", "read", << SearchRoot(request) >>)
                /\ Emitted.required_permissions[2] =
                       PermissionScope("shell", "exec", << Emitted.steps[1].inputs.command >>)
                /\ ~ Emitted.dry_run
                /\ Emitted.estimated_risk = "medium" ]_vars

C23_FileSearchRouted ==
    [][ \A request \in RequestSpace :
            (FileSearchChosen(request.prompt) /\ Emits(request)) =>
                /\ Len(Emitted.steps) = 1
                /\ Emitted.steps[1].action = "file.search"
                /\ Emitted.steps[1].side_effects = "none"
                /\ Emitted.steps[1].inputs.root = SearchRoot(request)
                /\ ~ Emitted.router_fallback_used
                /\ Emitted.requires_approval
                /\ Emitted.required_permissions =
                       << PermissionScope("file", "read", << SearchRoot(request) >>) >>
                /\ Emitted.router_confidence =
                       IF request.prompt.quoted # << >> THEN 95 ELSE 82 ]_vars

\* The router holds a file.search plan over the working directory, built
\* for a prompt with a quoted target.
C23_Witness ==
    \E plan \in RouterPlans :
        /\ plan.steps[1].action = "file.search"
        /\ plan.router_confidence = 95
        /\ plan.required_permissions[1].targets = << Cwd >>

\* C24: every plan the router emits stays retrievable: after any sequence
\* of operations, issue-token and action-card for a router-emitted plan_id
\* never answer 404; for a plan_id that was never stored they answer 404 and
\* issue-token creates no token.
C24_PlansRetrievable ==
    /\ [] \A plan_id \in PlanIdSpace :
            IF \E plan \in RouterPlans : plan.plan_id = plan_id
            THEN /\ post_action_card(plan_id, stored_plans) = Ok
                 /\ issue_token_lookup(plan_id, stored_plans) = Ok
                 /\ stored_plans[plan_id].plan_id = plan_id
            ELSE /\ post_action_card(plan_id, stored_plans).code = 404
                 /\ issue_token_lookup(plan_id, stored_plans).code = 404
                 /\ \A t \in DOMAIN approval_tokens : approval_tokens[t].plan_id # plan_id
    /\ [][ \A plan_id \in DOMAIN stored_plans :
               /\ plan_id \in DOMAIN stored_plans'
               /\ stored_plans'[plan_id] = stored_plans[plan_id] ]_vars

\* The plan the router emitted is still stored after tokens were issued for
\* it and a call consumed one and executed it.
C24_Witness ==
    \E plan \in RouterPlans :
        /\ Len(approval_tokens) = MaxTokens
        /\ \E c \in Calls :
               /\ Done(c)
               /\ calls[c].plan = plan
               /\ calls[c].token # None

(***************************************************************************)
(* SpecFiles: a server that holds one registered plan of one step, a       *)
(* search, a read of a text or a command that prints a file, whose client  *)
(* has tokens issued for it and executes it with them.  The plans range    *)
(* over the limits the step gives: max_results, max_snippet_chars,         *)
(* max_chars and max_output_chars, inside and outside the intervals the    *)
(* agents clamp them to.                                                   *)
(***************************************************************************)
MaxResultsSpace == { -3, 0, 1, 2, 10, 150 }
MaxSnippetCharsSpace == { -7, 0, 10, 31, 32, 240, 2000, 3000 }
MaxCharsSpace == { -2, 0, 1, 5, 6, 50, 200000, 300000 }
MaxOutputCharsSpace == { -1, 200, 256, 300, 20000, 200000, 300000 }
\* The lengths stdout + stderr of the command can have.
OutputLens == { 0, 10, 256, 257, 300, 200000, 200001, 250000 }

FilePlans ==
    { Plan(9, TRUE, << PermissionScope("file", "read", <<Allowed>>) >>,
           << Step("s1", "file", "file.search",
                   [NoInputs EXCEPT !.root = Allowed,
                                    !.max_results = JInt(max_results),
                                    !.max_snippet_chars = JInt(max_snippet_chars)],
                   "none") >>,
           "low", FALSE, 95, FALSE) :
        max_results \in MaxResultsSpace, max_snippet_chars \in MaxSnippetCharsSpace }
        \cup
    { Plan(9, TRUE, << PermissionScope("file", "read", <<Allowed>>) >>,
           << Step("s1", "file", "file.read_text",
                   [NoInputs EXCEPT !.path = path, !.max_chars = JInt(max_chars)],
                   "none") >>,
           "low", FALSE, 95, FALSE) :
        path \in { <<"allowed", "a.txt">>, <<"allowed", "b.txt">> },
        max_chars \in MaxCharsSpace }
        \cup
    { [build_shell_plan(9, CmdStr(<<"cat", "a.txt">>), Allowed)
         EXCEPT !.steps[1].inputs.max_output_chars = JInt(max_output_chars)] :
        max_output_chars \in MaxOutputCharsSpace }

InitFiles ==
    /\ stored_plans \in { [id \in {p.plan_id} |-> p] : p \in FilePlans }
    /\ approval_tokens = << >>
    /\ approval_lock = None
    /\ current_config = AppConfig({<<"allowed">>, <<"linked">>}, TRUE)
    /\ now = 0
    /\ ticks = 0
    /\ calls = [c \in Calls |-> IdleCall]
    /\ tasks = 0
    /\ task_files = << >>
    /\ task_index = << >>
    /\ consumptions = << >>
    /\ current_models = ModelsState(<< >>, "None")

NextFiles ==
    \/ Quiet /\ \E plan_id \in DOMAIN stored_plans : post_issue_token(plan_id)
    \/ Quiet /\ \E c \in Calls, request_plan \in StoredPlans,
                    approval_token_id \in DOMAIN approval_tokens :
                    ExecuteStart(c, request_plan, approval_token_id)
    \/ \E c \in Calls : ConsumeCheck(c)
    \/ \E c \in Calls : ConsumeMark(c)
    \/ \E c \in Calls : ExecuteStep(c)
    \/ \E c \in Calls, slow \in BOOLEAN, out_len \in OutputLens :
           ExecuteShell(c, slow, "exit0", out_len)
    \/ \E c \in Calls : PersistTrace(c)
    \/ \E c \in Calls : WriteIndex(c)

SpecFiles == InitFiles /\ [][NextFiles]_vars

\* The details of the events of a call that carry this message.
DetailsOf(c, message) ==
    { calls[c].trace.events[k].details :
        k \in { j \in DOMAIN calls[c].trace.events :
                  calls[c].trace.events[j].message = message } }

\* The inputs of the one step of the plan a call executes.
InputsOf(c) == calls[c].plan.steps[1].inputs

\* Every search that completed returned no more than results_limit results
\* and no snippet longer than snippet_limit, both given for the inputs of the
\* step.
SearchWithin(results_limit(_), snippet_limit(_)) ==
    \A c \in Calls : \A results \in DetailsOf(c, "search completed") :
        /\ Len(results) <= results_limit(InputsOf(c).max_results.v)
        /\ \A k \in DOMAIN results :
               runs_len(results[k].snippet) <= snippet_limit(InputsOf(c).max_snippet_chars.v)

\* C25 (as the code has it): for all integer inputs max_results and
\* max_snippet_chars, a file search returns at most
\* max(1, min(max_results, 100)) results and every returned snippet has a
\* length of at most max(32, min(max_snippet_chars, 2000)).
C25_SearchBounds ==
    SearchWithin(LAMBDA max_results : Max(1, Min(max_results, 100)),
                 LAMBDA max_snippet_chars : Max(32, Min(max_snippet_chars, 2000)))

\* C25 as stated: for all integer inputs max_results and max_snippet_chars,
\* those below 1 and below 32 included, a file search returns at most
\* min(max_results, 100) results and every returned snippet has a length of
\* at most min(max_snippet_chars, 2000).
C25_Original ==
    SearchWithin(LAMBDA max_results : Min(max_results, 100),
                 LAMBDA max_snippet_chars : Min(max_snippet_chars, 2000))

\* A search asked for less than one result and for snippets of less than 32
\* characters completed with one result, whose snippet is 32 characters.
C25_Witness ==
    \E c \in Calls : \E results \in DetailsOf(c, "search completed") :
        /\ InputsOf(c).max_results.v < 1
        /\ InputsOf(c).max_snippet_chars.v < 32
        /\ Len(results) = 1
        /\ runs_len(results[1].snippet) = 32

\* Every read that completed returned exactly min(len(content), limit)
\* characters, reports that number as returned_chars, and has truncated set
\* to len(content) > limit, the limit given for the max_chars of the step.
ReadWithin(limit(_)) ==
    \A c \in Calls : \A read \in DetailsOf(c, "file read completed") :
        /\ runs_len(read.content) = Min(runs_len(Content(read.path)), limit(InputsOf(c).max_chars.v))
        /\ read.returned_chars = runs_len(read.content)
        /\ read.truncated = (runs_len(Content(read.path)) > limit(InputsOf(c).max_chars.v))

\* C26 (as the code has it): for every file content and every integer
\* max_chars, read_text returns exactly min(len(content), m) characters for
\* m = max(1, min(max_chars, 200000)), reports that number as returned_chars,
\* and sets truncated to (len(content) > m).
C26_ReadTruncation == ReadWithin(LAMBDA max_chars : Max(1, Min(max_chars, 200000)))

\* C26 as stated: for every file content and every integer max_chars, those
\* below 1 and above 200000 included, read_text returns exactly
\* min(len(content), max_chars) characters, reports that number as
\* returned_chars, and sets truncated to (len(content) > max_chars).
C26_Original == ReadWithin(LAMBDA max_chars : max_chars)

\* A read with a max_chars above 200000 of a longer text completed with
\* 200000 characters, truncated.
C26_Witness ==
    \E c \in Calls : \E read \in DetailsOf(c, "file read completed") :
        /\ InputsOf(c).max_chars.v > 200000
        /\ runs_len(Content(read.path)) > 200000
        /\ read.returned_chars = 200000
        /\ read.truncated

\* Call c leaves the checks of consume_approval_token in this step, having
\* presented token t, unconsumed, with the plan it is bound to.
Presents(c, t) ==
    /\ calls[c].pc = "consume"
    /\ calls'[c].pc # "consume"
    /\ calls[c].request.approval_token_id = t
    /\ t \in DOMAIN approval_tokens
    /\ approval_tokens[t].plan_id = calls[c].plan.plan_id
    /\ approval_tokens[t].consumed_at = NoTime

\* The token is accepted in this step before the instant end, and rejected
\* as expired from end on.
LivesUntil(c, end) ==
    IF now < end
    THEN calls'[c].pc = "mark"
    ELSE /\ calls'[c].pc = "done"
         /\ calls'[c].response = HTTPException(403, "Approval token expired")

\* C27 (as the code has it): a token's lifetime is 300 seconds from its
\* issued_at timestamp, the instant of issuance truncated to the second: an
\* unconsumed token presented with its matching plan at any instant strictly
\* less than 300 seconds after issued_at is accepted, and one presented 300
\* seconds or more after issued_at is rejected as expired.
C27_Lifetime ==
    [][\A c \in Calls : \A t \in DOMAIN approval_tokens :
          Presents(c, t) =>
              LivesUntil(c, fromisoformat(approval_tokens[t].issued_at + TTL_SECONDS))]_vars

\* C27 as stated: a token's lifetime is 300 seconds from the instant of
\* issuance: an unconsumed token presented with its matching plan at any
\* instant strictly less than 300 seconds after it was issued is accepted,
\* and one presented 300 seconds or more after issuance is rejected as
\* expired.
C27_Original ==
    [][\A c \in Calls : \A t \in DOMAIN approval_tokens :
          Presents(c, t) =>
              LivesUntil(c, approval_tokens[t].issued + TTL_SECONDS * SubSec)]_vars

\* A token issued within a second was presented unconsumed with its plan
\* less than 300 seconds later, 300 seconds after its issued_at, and the
\* call was answered that it is expired.
C27_Witness ==
    \E c \in Calls : \E t \in DOMAIN approval_tokens :
        /\ calls[c].pc = "done"
        /\ calls[c].response = HTTPException(403, "Approval token expired")
        /\ calls[c].request.approval_token_id = t
        /\ approval_tokens[t].plan_id = calls[c].plan.plan_id
        /\ approval_tokens[t].consumed_at = NoTime
        /\ now < approval_tokens[t].issued + TTL_SECONDS * SubSec
        /\ now >= fromisoformat(approval_tokens[t].issued_at + TTL_SECONDS)

\* The token call c cites is known, consumed, expired, bound to another plan
\* than the one the call executes.
Known(c) == calls[c].request.approval_token_id \in DOMAIN approval_tokens
Cited(c) == approval_tokens[calls[c].request.approval_token_id]
IsConsumed(c) == Cited(c).consumed_at # NoTime
IsExpired(c) == now >= fromisoformat(Cited(c).expires_at)
IsMismatched(c) == Cited(c).plan_id # calls[c].plan.plan_id

\* Call c leaves the checks of consume in this step, answered with detail.
ConsumeFails(c, detail) ==
    /\ calls'[c].pc = "done"
    /\ calls'[c].response = HTTPException(403, detail)

\* C28: consume reports the first failing check in the fixed order not
\* found, plan mismatch, already used, expired: a token that is both
\* consumed and expired fails with 'already used', and a token cited with
\* the wrong plan fails with 'does not match plan' whether or not it is
\* consumed or expired.
C28_CheckOrder ==
    [][\A c \in Calls :
          (calls[c].pc = "consume" /\ calls'[c].pc # "consume") =>
              /\ ~ Known(c) => ConsumeFails(c, "Approval token not found")
              /\ (Known(c) /\ IsMismatched(c)) =>
                     ConsumeFails(c, "Approval token does not match plan")
              /\ (Known(c) /\ ~ IsMismatched(c) /\ IsConsumed(c)) =>
                     ConsumeFails(c, "Approval token already used")
              /\ (Known(c) /\ ~ IsMismatched(c) /\ ~ IsConsumed(c) /\ IsExpired(c)) =>
                     ConsumeFails(c, "Approval token expired")
              /\ (Known(c) /\ ~ IsMismatched(c) /\ ~ IsConsumed(c) /\ ~ IsExpired(c)) =>
                     calls'[c].pc = "mark"]_vars

\* A call that cited, with its plan, a token both consumed and expired was
\* answered 'already used'.
C28_Witness ==
    \E c \in Calls :
        /\ calls[c].pc = "done"
        /\ calls[c].response = HTTPException(403, "Approval token already used")
        /\ Known(c)
        /\ ~ IsMismatched(c)
        /\ IsConsumed(c)
        /\ IsExpired(c)

\* The step is made by the call that holds the approval mutex, inside the
\* critical section of consume.
ByLockHolder ==
    /\ approval_lock \in Calls
    /\ calls[approval_lock].pc = "mark"
    /\ calls'[approval_lock].pc # "mark"

\* C29: every write to the process-wide token map - inserting a newly issued
\* token as well as marking a token consumed - is performed while holding
\* the approval mutex, so no issue-token call can modify the map while a
\* consume is inside its critical section.
C29_WritesUnderLock == [][approval_tokens' # approval_tokens => ByLockHolder]_vars

\* The execute call in slot c has ended with a terminal status: its trace
\* is completed, failed or timed out, and persist_task_trace has returned.
Terminal(c) ==
    /\ Done(c)
    /\ calls[c].trace.status \in {"completed", "failed", "timeout"}
    /\ calls[c].trace.task_id \in DOMAIN task_files

\* C30: the read-modify-write of the task index is mutually exclusive
\* between concurrent execute calls: after two concurrent executes both
\* reach a terminal status, in every interleaving, the index contains a
\* summary for both task_ids (no lost update) and is a well-formed list.
C30_NoLostUpdate ==
    \A c, d \in Calls :
        (c # d /\ Terminal(c) /\ Terminal(d)) =>
            /\ Cardinality(Summaries(calls[c].trace.task_id)) = 1
            /\ Cardinality(Summaries(calls[d].trace.task_id)) = 1

(***************************************************************************)
(* SpecReload: a server that holds one registered shell plan, whose client *)
(* has tokens issued for it and executes it with them, while config.json   *)
(* is reloaded at any moment, also between two steps of a handler.         *)
(***************************************************************************)
ReloadPlans ==
    { build_shell_plan(4, CmdStr(<<"pwd">>), cwd) : cwd \in { Allowed, <<"outside">> } }

InitReload ==
    /\ stored_plans \in { [id \in {p.plan_id} |-> p] : p \in ReloadPlans }
    /\ approval_tokens = << >>
    /\ approval_lock = None
    /\ current_config \in ConfigFiles
    /\ now = 0
    /\ ticks = 0
    /\ calls = [c \in Calls |-> IdleCall]
    /\ tasks = 0
    /\ task_files = << >>
    /\ task_index = << >>
    /\ consumptions = << >>
    /\ current_models = ModelsState(<< >>, "None")

NextReload ==
    \/ \E disk \in ConfigFiles : reload_config(disk)
    \/ NextApproved

SpecReload == InitReload /\ [][NextReload]_vars

\* C31: the policy decision for one shell.exec step never mixes two config
\* versions: when a config reload runs concurrently with the step, the
\* shell.enabled check and the allowed_folders scope check of that step are
\* both evaluated against the same config (either the old one or the new
\* one).
C31_OneConfigVersion ==
    [][\A c \in Calls :
          (calls[c].pc = "shell_policy" /\ calls'[c].pc # "shell_policy") =>
              calls[c].enabled_in = current_config]_vars

\* Some word of the argv is, case-insensitively, a word of the deny-list.
DenyWord(argv) ==
    \E i \in DOMAIN argv :
        lower(argv[i]) \in { "curl", "wget", "ssh", "rm", "sudo", "chmod", "chown", "dd",
                             "mkfs", "mount" }

C33_TokensKept ==
    /\ [](\A c \in Calls :
            calls[c].token # None =>
                /\ calls[c].token \in DOMAIN approval_tokens
                /\ approval_tokens[calls[c].token].consumed_at # NoTime)
    /\ [][/\ DOMAIN approval_tokens \subseteq DOMAIN approval_tokens'
           /\ \A t \in DOMAIN approval_tokens :
                  /\ approval_tokens'[t].token_id = approval_tokens[t].token_id
                  /\ approval_tokens[t].consumed_at # NoTime =>
                         approval_tokens'[t] = approval_tokens[t]
           /\ \A c \in Calls :
                  (/\ calls[c].pc = "consume"
                   /\ calls'[c].pc # "consume"
                   /\ Known(c)
                   /\ IsConsumed(c)) => calls'[c].response.code = 403]_vars

\* A token was consumed by an execute call that the policy then denied; a
\* later call that cited it for the same plan, after the clock advanced and
\* the configuration was reloaded, was answered that it is already used, and
\* the token holds the consumed_at of its one consumption.
C33_Witness ==
    \E c \in Calls : \E t \in DOMAIN approval_tokens : \E k \in DOMAIN task_files :
        /\ Done(c)
        /\ calls[c].request.approval_token_id = t
        /\ calls[c].response = HTTPException(403, "Approval token already used")
        /\ Consumers(t) # {}
        /\ \A i \in Consumers(t) : consumptions[i][2] = k
        /\ task_files[k].status = "failed"
        /\ task_files[k].error = "HTTP exception during execution"
        /\ approval_tokens[t].consumed_at < iso(now)
        /\ current_config # DefaultConfig

\* The positions, in the events of a trace, of the events of a step.
EventsOfStep(events, step) == { k \in DOMAIN events : events[k].step_id = step.step_id }

\* The events are in the order of the executor's steps over this plan.
InStepOrder(events, plan) ==
    /\ \A k \in DOMAIN events : events[k].message = "Approval token validated" => k = 1
    /\ \A i \in DOMAIN plan.steps :
           \A k \in EventsOfStep(events, plan.steps[i]) :
               /\ events[k].message = "Executing" <=>
                      \A l \in EventsOfStep(events, plan.steps[i]) : k <= l
               /\ \A j \in DOMAIN plan.steps :
                      i < j => \A l \in EventsOfStep(events, plan.steps[j]) : k < l

\* C34: events of a trace are in append order following the executor's
\* steps: the 'Approval token validated' event, when present, is first;
\* each step's 'Executing <action>' event precedes every other event of
\* that step; and all events of step i precede all events of step i+1 in
\* plan order.
C34_EventOrder ==
    \A c \in Calls :
        /\ InStepOrder(calls[c].trace.events, calls[c].plan)
        /\ calls[c].trace.task_id \in DOMAIN task_files =>
               InStepOrder(task_files[calls[c].trace.task_id].events, calls[c].plan)

\* A call returned the trace of a plan of two steps: the token event, then
\* two events or more of the first step, then two or more of the second.
C34_Witness ==
    \E c \in Calls :
        /\ ReturnedTrace(c)
        /\ Len(calls[c].plan.steps) = 2
        /\ calls[c].trace.events[1].message = "Approval token validated"
        /\ Cardinality(EventsOfStep(calls[c].trace.events, calls[c].plan.steps[1])) >= 2
        /\ Cardinality(EventsOfStep(calls[c].trace.events, calls[c].plan.steps[2])) >= 2
        /\ task_files[calls[c].trace.task_id].events = calls[c].trace.events

UnsupportedAction == HTTPException(400, "Unsupported action")

\* Step j of the plan has an action the executor has no branch for.
Unsupported(plan, j) ==
    plan.steps[j].action \notin
        {"conversation.respond", "file.search", "file.read_text", "shell.exec"}

\* C35: a step whose action is not conversation.respond, file.search,
\* file.read_text or shell.exec makes execute fail with 400 'Unsupported
\* action'; the rejection happens only when that step is reached, i.e. after
\* the token has been consumed and after all earlier steps have run, and the
\* persisted trace has status 'failed'.
C35_UnsupportedAction ==
    \A c \in Calls :
        LET call == calls[c] IN
        /\ \A j \in DOMAIN call.plan.steps :
               (Unsupported(call.plan, j) /\ Dispatched(call, j)) =>
                   /\ call.i = j
                   /\ call.exc = UnsupportedAction
                   /\ call.trace.status = "failed"
                   /\ Done(c) =>
                          /\ call.response = UnsupportedAction
                          /\ task_files[call.trace.task_id].status = "failed"
        /\ (call.exc = UnsupportedAction \/ call.response = UnsupportedAction) =>
               /\ Unsupported(call.plan, call.i)
               /\ Dispatched(call, call.i)
               /\ token_required(call.plan) =>
                      /\ call.token # None
                      /\ approval_tokens[call.token].consumed_at # NoTime
               /\ \A j \in 1..(call.i - 1) : StepSucceeded(call, j)

\* A plan whose second step has an unsupported action was answered 400
\* after its first step, a read of a file, had run; the trace persisted is
\* failed.
C35_Witness ==
    \E c \in Calls :
        /\ Done(c)
        /\ calls[c].response = UnsupportedAction
        /\ calls[c].i = 2
        /\ "file_read_text" \in Ops(calls[c])
        /\ calls[c].token # None
        /\ task_files[calls[c].trace.task_id].status = "failed"

\* The limit a shell step of these inputs puts on its output.
OutputCap(inputs) == Max(256, Min(inputs.max_output_chars.v, 200000))

\* C36: the output of a shell step has the length of stdout followed by
\* stderr, cut to the limit, which is max_output_chars clamped to
\* [256, 200000]; truncated is true iff stdout and stderr together are longer
\* than the limit; the trace holds the warn event 'shell output truncated'
\* iff truncated is true.
C36_OutputTruncation ==
    /\ [](\A c \in Calls :
            \A completed \in DetailsOf(c, "shell command completed") :
                /\ completed.output <= OutputCap(InputsOf(c))
                /\ completed.truncated <=>
                       DetailsOf(c, "shell output truncated") # {})
    /\ [][\A c \in Calls, slow \in BOOLEAN, out_len \in OutputLens :
             (/\ calls[c].pc = "shell_policy"
              /\ ExecuteShell(c, slow, "exit0", out_len)
              /\ "command" \in Ops(calls'[c])) =>
                 LET events == calls'[c].trace.events
                     completed == { events[k].details :
                                      k \in { j \in DOMAIN events :
                                                events[j].message = "shell command completed" } }
                     warned == \E k \in DOMAIN events :
                                   events[k].message = "shell output truncated"
                     cap == OutputCap(calls[c].plan.steps[calls[c].i].inputs)
                 IN  /\ completed # {}
                     /\ \A result \in completed :
                            LET raw == IF result.timed_out THEN TimedOutLen ELSE out_len
                            IN  /\ result.output = Min(raw, cap)
                                /\ result.truncated = (raw > cap)
                                /\ warned = result.truncated]_vars

\* A command whose step asked for at most 200 characters printed more than
\* 256: the trace returned and persisted holds the first 256, marked
\* truncated, and the warn event.
C36_Witness ==
    \E c \in Calls :
        /\ ReturnedTrace(c)
        /\ calls[c].plan.steps[1].action = "shell.exec"
        /\ InputsOf(c).max_output_chars = JInt(200)
        /\ DetailsOf(c, "shell command completed") =
               { [exit_code |-> 0, timed_out |-> FALSE, truncated |-> TRUE, output |-> 256] }
        /\ DetailsOf(c, "shell output truncated") = { 256 }
        /\ task_files[calls[c].trace.task_id].events = calls[c].trace.events

\* C37: when execute calls do not overlap, the task index has at most one
\* summary for a task_id, is sorted by started_at in descending order, and
\* every summary refers to a trace file that exists and has the plan_id and
\* the status of the summary.
C37_IndexMatchesFiles ==
    /\ \A i, j \in DOMAIN task_index :
           /\ task_index[i].task_id = task_index[j].task_id => i = j
           /\ i < j => task_index[i].started_at >= task_index[j].started_at
    /\ \A i \in DOMAIN task_index :
           /\ task_index[i].task_id \in DOMAIN task_files
           /\ task_files[task_index[i].task_id].plan_id = task_index[i].plan_id
           /\ task_files[task_index[i].task_id].status = task_index[i].status

\* Two tasks ran one after the other, the second started later than the
\* first: the index lists the second before the first, each with the status
\* of its file.
C37_Witness ==
    /\ Quiet
    /\ Len(task_index) = 2
    /\ task_index[1].started_at > task_index[2].started_at
    /\ task_index[1].task_id # task_index[2].task_id
    /\ task_index[1].status # task_index[2].status
    /\ DOMAIN task_files = { task_index[1].task_id, task_index[2].task_id }

\* A trace as execute leaves it: ended, with one of the three final
\* statuses, and with an error only when it failed.
Final(trace) ==
    /\ trace.status \in { "completed", "failed", "timeout" }
    /\ trace.ended_at # NoTime
    /\ trace.error # "None" => trace.status = "failed"

\* C38: every trace execute persisted or returned has status completed,
\* failed or timeout and an ended_at; queued, running and denied never
\* appear in such a trace, and its error is set only when it failed.
C38_FinalTraces ==
    /\ \A task_id \in DOMAIN task_files : Final(task_files[task_id])
    /\ \A k \in DOMAIN task_index :
           /\ task_index[k].status \in { "completed", "failed", "timeout" }
           /\ task_index[k].ended_at # NoTime
    /\ \A c \in Calls :
           /\ calls[c].pc = "index" => Final(calls[c].trace)
           /\ ReturnedTrace(c) => Final(calls[c].trace)

\* A shell command timed out: the trace returned and persisted has status
\* timeout, an ended_at and no error.
C38_Witness ==
    \E c \in Calls :
        /\ ReturnedTrace(c)
        /\ calls[c].trace.status = "timeout"
        /\ calls[c].trace.ended_at # NoTime
        /\ calls[c].trace.error = "None"
        /\ task_files[calls[c].trace.task_id] = calls[c].trace

\* What execute answers when it rejects a call before or during the token
\* phase.
TokenPhaseRejections ==
    { HTTPException(403, detail) :
        detail \in { "Dry-run plans cannot execute side-effect steps",
                     "Approval token required", "Approval token not found",
                     "Approval token does not match plan",
                     "Approval token already used", "Approval token expired" } }

\* No write of a consumed_at was made for the task of this call.
WroteNoToken(c) ==
    /\ calls[c].token = None
    /\ \A i \in DOMAIN consumptions : consumptions[i][2] # calls[c].trace.task_id

\* C39: an execute call rejected before or during the token phase (dry-run
\* rejection, missing token id, token not found, plan mismatch, already
\* used, expired) leaves every token of the store as it was, the consumed_at
\* of the cited token included; an execute call on a plan that requires no
\* token leaves the store as it was even when it cites a valid token.
C39_RejectionKeepsTokens ==
    /\ [](\A c \in Calls :
            /\ (Done(c) /\ calls[c].response \in TokenPhaseRejections) => WroteNoToken(c)
            /\ (/\ Active(c)
                /\ ~ calls[c].plan.requires_approval
                /\ SideEffects(calls[c].plan) = {}) => WroteNoToken(c))
    /\ [][\A t \in DOMAIN approval_tokens :
             approval_tokens'[t] # approval_tokens[t] =>
                 \E c \in Calls :
                     /\ calls[c].pc = "mark"
                     /\ calls[c].request.approval_token_id = t
                     /\ calls'[c].token = t
                     /\ calls'[c].pc = "step"
                     /\ consumptions' = Append(consumptions, << t, calls[c].trace.task_id >>)
                     /\ approval_tokens' =
                            [approval_tokens EXCEPT ![t].consumed_at = iso(now)]]_vars

\* An execute call cited a token of its plan that had expired unconsumed:
\* it was answered 'Approval token expired' and the token is still
\* unconsumed.
C39_Witness ==
    \E c \in Calls : \E t \in DOMAIN approval_tokens :
        /\ Done(c)
        /\ calls[c].request.approval_token_id = t
        /\ calls[c].response = HTTPException(403, "Approval token expired")
        /\ approval_tokens[t].plan_id = calls[c].plan.plan_id
        /\ approval_tokens[t].consumed_at = NoTime
        /\ Consumers(t) = {}

\* Step j of the plan is a shell.exec step whose command ended, without
\* timing out, with an exit code other than 0.
ExitedNonZero(call, j) ==
    \E k \in StepEvents(call, j) :
        /\ call.trace.events[k].message = "shell command completed"
        /\ call.trace.events[k].details.exit_code # 0
        /\ ~ call.trace.events[k].details.timed_out

\* C40: the trace status is completed exactly when every step was
\* dispatched without raising and no shell step timed out; the exit code of
\* a shell command has no part in it: a shell.exec step that ends with a
\* non-zero exit code without timing out (cat or ls of a missing target, an
\* external command that is not found, exit 127) does not fail the task and
\* does not stop the steps after it.
C40_CompletedIff ==
    \A c \in Calls :
        LET call == calls[c] IN
        /\ (Ended(call) /\ call.trace.task_id # None) =>
               (call.trace.status = "completed" <=>
                    \A j \in DOMAIN call.plan.steps : StepSucceeded(call, j))
        /\ \A j \in DOMAIN call.plan.steps :
               ExitedNonZero(call, j) =>
                   /\ StepSucceeded(call, j)
                   /\ call.i > j
                   /\ j < Len(call.plan.steps) =>
                          \/ call.pc = "step" /\ call.i = j + 1
                          \/ Dispatched(call, j + 1)
                   /\ (/\ Ended(call)
                       /\ \A l \in DOMAIN call.plan.steps : l # j => StepSucceeded(call, l)) =>
                          call.trace.status = "completed"

\* The first command of a plan was not found, exit code 127, and the
\* second ended with exit code 1: both steps ran and the trace returned and
\* persisted is completed.
C40_Witness ==
    \E c \in Calls :
        /\ ReturnedTrace(c)
        /\ Len(calls[c].plan.steps) = 2
        /\ \E k \in StepEvents(calls[c], 1) :
               /\ calls[c].trace.events[k].message = "shell command completed"
               /\ calls[c].trace.events[k].details.exit_code = 127
        /\ \E k \in StepEvents(calls[c], 2) :
               /\ calls[c].trace.events[k].message = "shell command completed"
               /\ calls[c].trace.events[k].details.exit_code = 1
        /\ calls[c].trace.status = "completed"
        /\ task_files[calls[c].trace.task_id] = calls[c].trace

====
